---- MODULE Spec2Model ----
(***************************************************************************)
(* Multi-cluster fan-out engine of the a2a KubeStellar agent.              *)
(*                                                                         *)
(* Several parts share one module:                                         *)
(*   - the sequential fan-out of multicluster_create, deploy_to,           *)
(*     helm_deploy, namespace_utils, gvrc_discovery and the non-follow     *)
(*     path of multicluster_logs, with namespace resolution, dry run and   *)
(*     the binding policy of helm_deploy (Spec and HelmSpec);              *)
(*   - the bounded concurrent log follower of multicluster_logs            *)
(*     (FollowSpec and FairFollowSpec);                                    *)
(*   - cluster discovery and classification at every call site             *)
(*     (DiscoverSpec);                                                     *)
(*   - one unit of work of multicluster_create / deploy_to and its error   *)
(*     message (UnitSpec);                                                 *)
(*   - the labels helm_deploy stamps and the selectors of its binding      *)
(*     policy (LabelSpec);                                                 *)
(*   - the command runner _run_command (RunnerSpec);                       *)
(*   - the function registry (RegistrySpec);                               *)
(*   - the dispatch loop with a unit as an interval (SeqSpec);             *)
(*   - the cluster filter of kubestellar_management (MgmtSpec).            *)
(***************************************************************************)
EXTENDS Integers, Sequences, FiniteSets, TLC

(***************************************************************************)
(* Bounds of the model.                                                    *)
(***************************************************************************)
MaxClusters == 2
MaxNs == 2
MaxFollow == 3
MaxReq == 2

MaxCtx == 2

MaxSel == 2

MaxText == 2

MaxLabels == 2

MaxChunks == 2

MaxRegs == 3

(***************************************************************************)
(* Generic helpers: Python dict assignment and counting.                   *)
(***************************************************************************)
EmptyMap == [x \in {} |-> 0]

\* d[k] = v on a Python dict: a new key is added, an existing key is overwritten.
Put(d, k, v) == [x \in DOMAIN d \cup {k} |-> IF x = k THEN v ELSE d[x]]

RECURSIVE SumOver(_, _)
\* sum(f[k] for k in S)
SumOver(f, S) ==
    IF S = {} THEN 0
    ELSE LET k == CHOOSE x \in S : TRUE IN f[k] + SumOver(f, S \ {k})

(***************************************************************************)
(* Inputs of the fan-out.                                                  *)
(***************************************************************************)
\* Context names as `kubectl config get-contexts -o name` prints them: the
\* names of a kubeconfig are the keys of a map, hence distinct.
ClusterNames == <<"cluster1", "cluster2", "cluster3", "cluster4">>

NsNames == {"default", "prod"}

\* The call sites whose unit of work is one (cluster, namespace) pair.
UnitSites == {"create", "deploy_to", "helm_deploy", "helm_uninstall", "helm_info"}

\* The call sites whose unit of work is one cluster.
ClusterSites == {"namespace_utils", "gvrc_discovery", "logs"}

Sites == UnitSites \cup ClusterSites

\* The call sites whose per-cluster loop body sits in a try/except of its own.
GuardedSites == {"create", "deploy_to", "helm_deploy"}

OutputFormats == {"summary", "detailed"}

\* All lists of at most n namespace names; a caller-supplied list may repeat a name.
NsLists(n) == UNION {[1..k -> NsNames] : k \in 0..n}

VARIABLES
    site,          \* which function's execute() is running
    clusters,      \* the selected clusters, in discovery order
    nsList,        \* target_ns_list: resolved once, used for every cluster
    outputFormat,  \* output_format of gvrc_discovery
    pc,            \* "resolve" before namespace resolution, "dispatch" while
                   \* the fan-out loop runs, "policy" between the loop and the
                   \* binding policy of helm_deploy, "done" after return
    ci,            \* index of the cluster being processed
    nj,            \* index of the namespace being processed
    nsResults,     \* namespace_results of the cluster being processed
    results,       \* results: cluster name -> per-cluster outcome
    envelope,      \* the dictionary execute() returned
    ran,           \* history: the (cluster, namespace) index pairs executed
    raisedAt,      \* history: the index pairs whose unit of work raised
    lastUnit,      \* history: the unit executed by the latest step
    nsIn,          \* the namespace parameters execute() was called with
    queried,       \* history: the namespace queries run, in order
    bpIn,          \* create_binding_policy and wds_context of helm_deploy
    dryRun,        \* the dry_run parameter of deploy_to and helm_deploy
    policy         \* binding_policy_result, with the context it was applied to

fanVars == <<site, clusters, nsList, outputFormat, pc, ci, nj, nsResults,
             results, envelope, ran, raisedAt, lastUnit, nsIn, queried,
             bpIn, dryRun, policy>>

VARIABLES
    fn,            \* number of clusters whose logs are followed
    maxReq,        \* max_log_requests: the semaphore's initial value
    fpc,           \* "idle", "gather" (awaiting asyncio.gather) or "returned"
    tstate,        \* per follow task: where its coroutine stands
    tresult,       \* per follow task: the status of the dictionary it returned
    proc,          \* per cluster: its kubectl logs -f child process
    exitCode,      \* per cluster: the exit code of an exited child process
    permits,       \* the semaphore's _value
    waiters,       \* the semaphore's FIFO queue of waiting tasks
    cancelReq,     \* whether the follow operation was cancelled from outside
    fenv,          \* the dictionary _follow_logs_from_clusters returned
    launched,      \* history: the clusters whose stream launch was attempted
    cancelSnap,    \* history: streams running and queued when cancel arrived
    waited         \* history: the clusters whose task queued on the semaphore

followVars == <<fn, maxReq, fpc, tstate, tresult, proc, exitCode, permits,
                waiters, cancelReq, fenv, launched, cancelSnap, waited>>

VARIABLES
    dsite,         \* which function's cluster discovery is running
    includeWds,    \* include_wds of kubestellar_management
    contexts,      \* the context names `kubectl config get-contexts` lists
    dpc,           \* "idle", "list", "loop" or "done"
    di,            \* index of the context the loop is at
    found,         \* the list of clusters discovery returns
    probes,        \* history: what each context visited looked like
    listOnly,      \* list_clusters of deploy_to
    selNames,      \* target_clusters, as given to _filter_clusters
    selLabels,     \* cluster_labels, as given to _filter_clusters
    selected,      \* selected_clusters
    reply          \* the dictionary execute() returned before any fan-out

headVars == <<listOnly, selNames, selLabels, selected, reply>>

discVars == <<dsite, includeWds, contexts, dpc, di, found, probes, headVars>>

VARIABLES
    usite,         \* which function's unit of work is running
    upc,           \* "idle", "run" or "done"
    uresult,       \* what _run_command returned for the unit's command
    uentry         \* namespace_results[namespace] of the unit

unitVars == <<usite, upc, uresult, uentry>>

VARIABLES
    lpc,           \* "idle", "start", "stamped" or "policy"
    lin,           \* release_name, chart_name, kubestellar_labels, cluster_selector_labels
    stamped,       \* helm_labels: the labels put on the deployed resources
    selectors      \* the spec of the generated BindingPolicy

labelVars == <<lpc, lin, stamped, selectors>>

VARIABLES
    rsite,         \* whose _run_command is running: "fanout" or "setup"
    rpc,           \* "idle", "start", "waiting" or "returned"
    rchild,        \* the child process: launch, state, exit code, output bytes
    rret           \* what _run_command gave back to its caller

runnerVars == <<rsite, rpc, rchild, rret>>

VARIABLES
    gpc,           \* "idle" or "open"
    registry,      \* FunctionRegistry._functions: keys in insertion order, values
    registered     \* history: the functions passed to register(), in order

registryVars == <<gpc, registry, registered>>

VARIABLES
    qpc,           \* "idle", "head" (at the loop head), "awaiting" or "done"
    qn,            \* number of selected clusters
    qm,            \* number of target namespaces
    qi,            \* index of the cluster the loop is at
    qj,            \* index of the namespace the loop is at
    flight,        \* the units whose external process is running
    order,         \* history: the units in the order they started
    finished       \* history: unit -> exit code of its completed process

seqVars == <<qpc, qn, qm, qi, qj, flight, order, finished>>

VARIABLES
    kpc,           \* "idle", "called" or "returned"
    kdiscovered,   \* what _discover_kubestellar_topology returned
    knames,        \* the cluster_names parameter (empty when not given)
    kall,          \* the all_clusters parameter
    kanalysed,     \* the clusters handed to the operation
    kreply         \* "" , "error" (no clusters discovered) or "analysis"

mgmtVars == <<kpc, kdiscovered, knames, kall, kanalysed, kreply>>

vars == <<fanVars, followVars, discVars, unitVars, labelVars, runnerVars, registryVars, seqVars, mgmtVars>>

\* What a step of one part leaves alone.
FanFrame == UNCHANGED <<followVars, discVars, unitVars, labelVars, runnerVars, registryVars, seqVars, mgmtVars>>

FollowFrame == UNCHANGED <<fanVars, discVars, unitVars, labelVars, runnerVars, registryVars, seqVars, mgmtVars>>

DiscFrame == UNCHANGED <<fanVars, followVars, unitVars, labelVars, runnerVars, registryVars, seqVars, mgmtVars>>

UnitFrame == UNCHANGED <<fanVars, followVars, discVars, labelVars, runnerVars, registryVars, seqVars, mgmtVars>>

LabelFrame == UNCHANGED <<fanVars, followVars, discVars, unitVars, runnerVars, registryVars, seqVars, mgmtVars>>

RunnerFrame == UNCHANGED <<fanVars, followVars, discVars, unitVars, labelVars, registryVars, seqVars, mgmtVars>>

RegistryFrame == UNCHANGED <<fanVars, followVars, discVars, unitVars, labelVars, runnerVars, seqVars, mgmtVars>>

SeqFrame == UNCHANGED <<fanVars, followVars, discVars, unitVars, labelVars, runnerVars, registryVars, mgmtVars>>

MgmtFrame == UNCHANGED <<fanVars, followVars, discVars, unitVars, labelVars, runnerVars, registryVars, seqVars>>

(***************************************************************************)
(* Unit outcomes.                                                          *)
(***************************************************************************)
UnitSuccess == [status |-> "success", error |-> ""]

\* error carries the friendly message built from stderr/stdout.
UnitError == [status |-> "error", error |-> "command failed"]

\* kubectl create/apply of multicluster_create and deploy_to.
KubectlUnit(rc) == IF rc = 0 THEN UnitSuccess ELSE UnitError

\* Outcomes of the follow-up `helm status -o json` query.
HelmQueries ==
    { [rc |-> 1, json |-> "none", status |-> ""],
      [rc |-> 0, json |-> "bad", status |-> ""],
      [rc |-> 0, json |-> "ok", status |-> "deployed"],
      [rc |-> 0, json |-> "ok", status |-> "failed"],
      [rc |-> 0, json |-> "ok", status |-> "unknown"] }

\* release_info: has = whether the dictionary holds a "status" key.
ParseHelmOutput(q) ==
    IF q.rc # 0 THEN [has |-> FALSE, status |-> ""]
    ELSE IF q.json = "bad" THEN [has |-> TRUE, status |-> "deployed"]
    ELSE [has |-> TRUE, status |-> q.status]

\* {"status": "success", "output": ..., **release_info}: a later key wins.
HelmSuccessEntry(info) ==
    [status |-> IF info.has THEN info.status ELSE "success", error |-> ""]

\* helm install/upgrade of helm_deploy, with its release-status query.
HelmUnit(rc, q) ==
    IF rc = 0 THEN HelmSuccessEntry(ParseHelmOutput(q)) ELSE UnitError

(***************************************************************************)
(* Per-cluster outcomes.                                                   *)
(***************************************************************************)
\* sum(1 for r in m.values() if r["status"] == "success")
SuccessCount(m) == Cardinality({k \in DOMAIN m : m[k].status = "success"})

\* "success" if success_count > 0 else "error"
RollupStatus(n) == IF n > 0 THEN "success" ELSE "error"

\* The summary returned by _create_on_cluster / _deploy_to_cluster.
ClusterSummary(cluster, m) ==
    [status |-> RollupStatus(SuccessCount(m)),
     cluster |-> cluster,
     hasCounts |-> TRUE,
     namespaces_total |-> Cardinality(DOMAIN m),
     namespaces_succeeded |-> SuccessCount(m),
     namespaces_failed |-> Cardinality(DOMAIN m) - SuccessCount(m),
     hasResults |-> TRUE,
     namespace_results |-> m,
     error |-> ""]

\* The except branch of _create_on_cluster / _deploy_to_cluster.
ClusterException(cluster) ==
    [status |-> "error",
     cluster |-> cluster,
     hasCounts |-> FALSE,
     namespaces_total |-> 0,
     namespaces_succeeded |-> 0,
     namespaces_failed |-> 0,
     hasResults |-> FALSE,
     namespace_results |-> EmptyMap,
     error |-> "exception"]

\* cluster_result of _uninstall_helm_chart / _get_helm_info: no counts.
HelmClusterResult(cluster, m) ==
    [status |-> RollupStatus(SuccessCount(m)),
     cluster |-> cluster,
     hasCounts |-> FALSE,
     namespaces_total |-> 0,
     namespaces_succeeded |-> 0,
     namespaces_failed |-> 0,
     hasResults |-> TRUE,
     namespace_results |-> m,
     error |-> ""]

\* The per-cluster result of namespace_utils, gvrc_discovery and logs.
ClusterOpResult(cluster, st) ==
    [status |-> st,
     cluster |-> cluster,
     hasCounts |-> FALSE,
     namespaces_total |-> 0,
     namespaces_succeeded |-> 0,
     namespaces_failed |-> 0,
     hasResults |-> FALSE,
     namespace_results |-> EmptyMap,
     error |-> IF st = "success" THEN "" ELSE "command failed"]

ClusterResult(s, cluster, m) ==
    IF s \in {"helm_uninstall", "helm_info"}
    THEN HelmClusterResult(cluster, m)
    ELSE ClusterSummary(cluster, m)

(***************************************************************************)
(* The overall envelope.                                                   *)
(***************************************************************************)
\* sum(1 for r in results.values() if r["status"] == "success")
ClustersSucceeded(res) ==
    Cardinality({c \in DOMAIN res : res[c].status = "success"})

\* clusters_total is len(results) in multicluster_create and len(clusters)
\* (clusters_selected in deploy_to) everywhere else.
EnvelopeTotal(s, cl, res) ==
    IF s = "create" THEN Cardinality(DOMAIN res) ELSE Len(cl)

\* The clusters that have an entry in the result map of the returned
\* dictionary.  gvrc_discovery in summary format returns _create_summary's
\* digest, which skips every cluster whose status is not "success".
ReturnedClusters(s, fmt, res) ==
    IF s = "gvrc_discovery" /\ fmt = "summary"
    THEN {c \in DOMAIN res : res[c].status = "success"}
    ELSE DOMAIN res

\* The deployment_plan of a reply that carries none.
NoPlan == [target_clusters |-> <<>>, target_namespaces |-> <<>>]

Envelope(s, fmt, cl, res) ==
    [kind |-> "fanout",
     status |-> RollupStatus(ClustersSucceeded(res)),
     clusters_total |-> EnvelopeTotal(s, cl, res),
     clusters_succeeded |-> ClustersSucceeded(res),
     clusters_failed |-> EnvelopeTotal(s, cl, res) - ClustersSucceeded(res),
     perCluster |-> ReturnedClusters(s, fmt, res),
     error |-> "",
     plan |-> NoPlan]

\* An exception that leaves execute() instead of being turned into a
\* dictionary.
TopLevelRaise ==
    [kind |-> "raised",
     status |-> "",
     clusters_total |-> 0,
     clusters_succeeded |-> 0,
     clusters_failed |-> 0,
     perCluster |-> {},
     error |-> "",
     plan |-> NoPlan]

\* The generic error dictionary of execute()'s own except branch; the error
\* field holds the text of the exception.
TopLevelError ==
    [kind |-> "exception",
     status |-> "error",
     clusters_total |-> 0,
     clusters_succeeded |-> 0,
     clusters_failed |-> 0,
     perCluster |-> {},
     error |-> "exception",
     plan |-> NoPlan]

\* The dry-run reply of deploy_to and helm_deploy: status, message and the
\* deployment plan with its target clusters and target namespaces.
DryRunPlan(cl, ns) ==
    [kind |-> "dryrun",
     status |-> "success",
     clusters_total |-> 0,
     clusters_succeeded |-> 0,
     clusters_failed |-> 0,
     perCluster |-> {},
     error |-> "",
     plan |-> [target_clusters |-> cl, target_namespaces |-> ns]]

NoEnvelope ==
    [kind |-> "none",
     status |-> "",
     clusters_total |-> 0,
     clusters_succeeded |-> 0,
     clusters_failed |-> 0,
     perCluster |-> {},
     error |-> "",
     plan |-> NoPlan]

NoUnit == [cluster |-> 0, ns |-> 0, rc |-> 0, raised |-> FALSE]

(***************************************************************************)
(* Namespace resolution.                                                   *)
(***************************************************************************)
\* The namespace parameters of execute(): target_namespaces, all_namespaces,
\* namespace_selector and namespace.
NoNsInput ==
    [explicit |-> <<>>, all_namespaces |-> FALSE, selector |-> "", namespace |-> ""]

\* Every combination of the four parameters with an explicit list of at most
\* one name, and the longer explicit lists with the other three left at their
\* defaults.
NsInputs ==
    [explicit : NsLists(1),
     all_namespaces : BOOLEAN,
     selector : {"", "env=prod"},
     namespace : {"", "prod"}]
    \cup {[NoNsInput EXCEPT !.explicit = l] : l \in NsLists(MaxNs)}

\* What `kubectl get namespaces -o jsonpath={.items[*].metadata.name}` can
\* answer: an exit code and, on exit 0, the names of the cluster's namespaces
\* (kubectl lists a cluster's namespaces by name, each once; a selector may
\* match none).
QueryOutputs ==
    {<<>>, <<"default">>, <<"prod">>, <<"default", "prod">>}

QueryOutcomes ==
    {[rc |-> 0, out |-> o] : o \in QueryOutputs} \cup {[rc |-> 1, out |-> <<>>]}

NoQuery == [rc |-> 0, out |-> <<>>]

\* The resolver reaches its kubectl query: no explicit list, and all_namespaces
\* or a selector.
RunsQuery(in) ==
    /\ in.explicit = <<>>
    /\ in.all_namespaces \/ in.selector # ""

\* deploy_to / helm_deploy _resolve_target_namespaces, which take `namespace`.
ResolveWithNamespace(in, q) ==
    IF in.explicit # <<>> THEN in.explicit
    ELSE IF RunsQuery(in) /\ q.rc = 0 THEN q.out
    ELSE IF in.namespace # "" THEN <<in.namespace>>
    ELSE <<"default">>

\* multicluster_create: execute() calls its resolver, which takes no
\* `namespace`, when any of the three namespace-aware parameters is set, and
\* uses `namespace` itself only otherwise.
ResolveCreate(in, q) ==
    IF in.all_namespaces \/ in.selector # "" \/ in.explicit # <<>>
    THEN IF in.explicit # <<>> THEN in.explicit
         ELSE IF q.rc = 0 THEN q.out
         ELSE <<"default">>
    ELSE IF in.namespace # "" THEN <<in.namespace>>
    ELSE <<"default">>

ResolveTargetNamespaces(s, in, q) ==
    IF s = "create" THEN ResolveCreate(in, q) ELSE ResolveWithNamespace(in, q)

(***************************************************************************)
(* The dry run and the binding policy of helm_deploy.                      *)
(***************************************************************************)
\* The three operation families of helm_deploy.execute.
HelmSites == {"helm_deploy", "helm_uninstall", "helm_info"}

\* The call sites whose execute() returns the plan when dry_run is set.
DryRunSites == {"deploy_to"} \cup HelmSites

\* The control-plane (WDS) context of the kubeconfig.
WdsContext == "wds1"

\* create_binding_policy and wds_context: empty, the control-plane context,
\* or the context of the first workload cluster.
PolicyInputs ==
    [create : BOOLEAN, wds_context : {"", WdsContext, ClusterNames[1]}]

NoPolicyInput == [create |-> FALSE, wds_context |-> ""]

\* all_namespaces with a namespace or without, next to the defaults.
HelmNsInputs ==
    {NoNsInput,
     [NoNsInput EXCEPT !.all_namespaces = TRUE],
     [NoNsInput EXCEPT !.all_namespaces = TRUE, !.namespace = "prod"]}

\* binding_policy_result = None
NoPolicy == [invoked |-> FALSE, applied |-> FALSE, context |-> "", status |-> ""]

\* What `kubectl apply -f policy_file` can do: exit 0, exit non-zero, or not
\* run at all because writing the file raised.
ApplyOutcomes == {"applied", "failed", "raised"}

\* _create_binding_policy: --context wds_context when it is non-empty,
\* otherwise kubectl's current context `cur`.
CreateBindingPolicy(wds, cur, outcome) ==
    [invoked |-> TRUE,
     applied |-> outcome # "raised",
     context |-> IF outcome = "raised" THEN ""
                 ELSE IF wds # "" THEN wds ELSE cur,
     status |-> IF outcome = "applied" THEN "success" ELSE "error"]

\* A final_result whose status is taken over from a failed binding policy.
FinalResultPolicyStatus(result, p) ==
    [result EXCEPT !.status = IF p.invoked /\ p.status = "error" THEN "error" ELSE @]

\* final_result = {**result, "deployment_plan": ..., "binding_policy": ...}:
\* `result` has neither of the two added keys, so its own stay as they are;
\* binding_policy is the variable `policy`.
FinalResult(result, p) == result

\* The guard without its test of result["status"].
PolicyWantedAnyStatus(s, in, result) ==
    /\ in.create
    /\ s = "helm_deploy"

\* The guard of the binding-policy call.
PolicyWanted(s, in, result) ==
    /\ in.create
    /\ s = "helm_deploy"
    /\ result.status = "success"

(***************************************************************************)
(* The fan-out: the state after discovery and selection, the namespace     *)
(* resolution, then one step per awaited unit of work.                     *)
(***************************************************************************)
FanStart(sites, nsInputs, policyInputs) ==
    /\ site \in sites
    /\ \E n \in 1..MaxClusters : clusters = SubSeq(ClusterNames, 1, n)
    /\ nsList = <<>>
    /\ nsIn \in (IF site \in UnitSites THEN nsInputs ELSE {NoNsInput})
    /\ queried = <<>>
    /\ bpIn \in (IF site \in HelmSites THEN policyInputs ELSE {NoPolicyInput})
    /\ dryRun \in (IF site \in DryRunSites THEN BOOLEAN ELSE {FALSE})
    /\ policy = NoPolicy
    /\ outputFormat \in (IF site = "gvrc_discovery" THEN OutputFormats ELSE {"summary"})
    /\ pc = (IF site \in UnitSites THEN "resolve" ELSE "dispatch")
    /\ ci = 1
    /\ nj = 1
    /\ nsResults = EmptyMap
    /\ results = EmptyMap
    /\ envelope = NoEnvelope
    /\ ran = {}
    /\ raisedAt = {}
    /\ lastUnit = NoUnit

\* Every call site, every namespace input, no binding policy requested.
FanInit == FanStart(Sites, NsInputs, {NoPolicyInput})

\* The helm operations, with the namespace parameters that reach every
\* branch of the resolver and every binding-policy input.
HelmInit == FanStart(HelmSites, HelmNsInputs, PolicyInputs)

\* Where execute() goes when the fan-out has produced `result`: helm_deploy
\* still has its binding-policy test to make.
AfterFanout(s) == IF s \in HelmSites THEN "policy" ELSE "done"

\* results[cluster["name"]] = cluster_result, then the next cluster or the
\* aggregation and return.
FinishCluster(outcome) ==
    LET res == Put(results, clusters[ci], outcome) IN
    /\ results' = res
    /\ nsResults' = EmptyMap
    /\ nj' = 1
    /\ ci' = ci + 1
    /\ IF ci = Len(clusters)
       THEN /\ pc' = AfterFanout(site)
            /\ envelope' = Envelope(site, outputFormat, clusters, res)
       ELSE UNCHANGED <<pc, envelope>>

\* One iteration of `for namespace in target_namespaces` whose unit recorded
\* entry `unit` under its namespace name.
RecordUnit(unit) ==
    LET m == Put(nsResults, nsList[nj], unit) IN
    IF nj = Len(nsList)
    THEN FinishCluster(ClusterResult(site, clusters[ci], m))
    ELSE /\ nsResults' = m
         /\ nj' = nj + 1
         /\ UNCHANGED <<ci, results, pc, envelope>>

\* A resolution whose query goes to the last selected cluster.
ResolveStepLastCluster ==
    /\ FanFrame
    /\ pc = "resolve"
    /\ site \in UnitSites
    /\ \E q \in (IF RunsQuery(nsIn) THEN QueryOutcomes ELSE {NoQuery}) :
        /\ nsList' = ResolveTargetNamespaces(site, nsIn, q)
        /\ queried' = IF RunsQuery(nsIn)
                      THEN Append(queried, [cluster |-> clusters[Len(clusters)],
                                            rc |-> q.rc, out |-> q.out])
                      ELSE queried
    /\ pc' = "dispatch"
    /\ UNCHANGED <<site, clusters, nsIn, bpIn, dryRun, policy, outputFormat, ci, nj,
                   nsResults, results, envelope, ran, raisedAt, lastUnit>>

\* target_ns_list = await self._resolve_target_namespaces(clusters[0], ...):
\* at most one query, against the first selected cluster.
ResolveStep ==
    /\ FanFrame
    /\ pc = "resolve"
    /\ site \in UnitSites
    /\ \E q \in (IF RunsQuery(nsIn) THEN QueryOutcomes ELSE {NoQuery}) :
        /\ nsList' = ResolveTargetNamespaces(site, nsIn, q)
        /\ queried' = IF RunsQuery(nsIn)
                      THEN Append(queried, [cluster |-> clusters[1], rc |-> q.rc, out |-> q.out])
                      ELSE queried
    /\ pc' = "dispatch"
    /\ UNCHANGED <<site, clusters, nsIn, bpIn, dryRun, policy, outputFormat, ci, nj,
                   nsResults, results, envelope, ran, raisedAt, lastUnit>>

\* A call with dry_run set that deploys all the same.
UnitReadyDespiteDryRun(sites) ==
    /\ pc = "dispatch"
    /\ site \in sites
    /\ nsList # <<>>

\* A unit of work is due: the call is past the resolution, is no dry run and
\* has a namespace to work on.
UnitReady(sites) ==
    /\ pc = "dispatch"
    /\ ~dryRun
    /\ site \in sites
    /\ nsList # <<>>

\* multicluster_create._create_on_cluster / deploy_to._deploy_to_cluster:
\* one kubectl create/apply.
KubectlStep ==
    /\ FanFrame
    /\ UnitReady({"create", "deploy_to"})
    /\ \E rc \in {0, 1} :
        /\ ran' = ran \cup {<<ci, nj>>}
        /\ lastUnit' = [cluster |-> ci, ns |-> nj, rc |-> rc, raised |-> FALSE]
        /\ RecordUnit(KubectlUnit(rc))
        /\ UNCHANGED <<site, clusters, nsList, nsIn, queried, bpIn, dryRun, policy, outputFormat, raisedAt>>

\* helm_deploy._deploy_to_cluster: namespace creation, helm install/upgrade,
\* the release-status query and the secret labelling.
HelmStep ==
    /\ FanFrame
    /\ UnitReady({"helm_deploy"})
    /\ \E rc \in {0, 1}, q \in HelmQueries, secretRc \in {0, 1} :
        /\ ran' = ran \cup {<<ci, nj>>}
        /\ lastUnit' = [cluster |-> ci, ns |-> nj, rc |-> rc, raised |-> FALSE]
        /\ RecordUnit(HelmUnit(rc, q))
        /\ UNCHANGED <<site, clusters, nsList, nsIn, queried, bpIn, dryRun, policy, outputFormat, raisedAt>>

\* An exception inside the loop body of a guarded site: the except branch of
\* the per-cluster function replaces the whole cluster outcome.
RaiseStep ==
    /\ FanFrame
    /\ UnitReady(GuardedSites)
    /\ ran' = ran \cup {<<ci, nj>>}
    /\ raisedAt' = raisedAt \cup {<<ci, nj>>}
    /\ lastUnit' = [cluster |-> ci, ns |-> nj, rc |-> 1, raised |-> TRUE]
    /\ FinishCluster(ClusterException(clusters[ci]))
    /\ UNCHANGED <<site, clusters, nsList, nsIn, queried, bpIn, dryRun, policy, outputFormat>>

\* _uninstall_helm_chart / _get_helm_info: one helm uninstall/status/history.
HelmInfoStep ==
    /\ FanFrame
    /\ UnitReady({"helm_uninstall", "helm_info"})
    /\ \E rc \in {0, 1} :
        /\ ran' = ran \cup {<<ci, nj>>}
        /\ lastUnit' = [cluster |-> ci, ns |-> nj, rc |-> rc, raised |-> FALSE]
        /\ RecordUnit(KubectlUnit(rc))
        /\ UNCHANGED <<site, clusters, nsList, nsIn, queried, bpIn, dryRun, policy, outputFormat, raisedAt>>

\* An exception inside _uninstall_helm_chart / _get_helm_info, which have no
\* try of their own: execute()'s except branch returns the generic error.
HelmInfoRaise ==
    /\ FanFrame
    /\ UnitReady({"helm_uninstall", "helm_info"})
    /\ ran' = ran \cup {<<ci, nj>>}
    /\ raisedAt' = raisedAt \cup {<<ci, nj>>}
    /\ lastUnit' = [cluster |-> ci, ns |-> nj, rc |-> 1, raised |-> TRUE]
    /\ pc' = "done"
    /\ envelope' = TopLevelError
    /\ UNCHANGED <<site, clusters, nsList, nsIn, queried, bpIn, dryRun, policy, outputFormat, ci, nj, nsResults, results>>

\* An empty namespace list: no loop body runs, every cluster gets the summary
\* of an empty namespace_results, and execute() returns.
DispatchEmpty ==
    /\ FanFrame
    /\ pc = "dispatch"
    /\ site \in UnitSites
    /\ ~dryRun
    /\ nsList = <<>>
    /\ LET res == [c \in {clusters[i] : i \in 1..Len(clusters)} |->
                      ClusterResult(site, c, EmptyMap)] IN
        /\ results' = res
        /\ envelope' = Envelope(site, outputFormat, clusters, res)
    /\ ci' = Len(clusters) + 1
    /\ pc' = AfterFanout(site)
    /\ UNCHANGED <<site, clusters, nsList, nsIn, queried, bpIn, dryRun, policy, outputFormat, nj, nsResults, ran,
                   raisedAt, lastUnit>>

\* if dry_run: return {"status": "success", "message": "DRY RUN ...", ...},
\* after the resolution and before the first unit.
DryRunReturn ==
    /\ FanFrame
    /\ pc = "dispatch"
    /\ site \in DryRunSites
    /\ dryRun
    /\ ci = 1 /\ nj = 1 /\ ran = {}
    /\ results = EmptyMap
    /\ pc' = "done"
    /\ envelope' = DryRunPlan(clusters, nsList)
    /\ UNCHANGED <<site, clusters, nsList, nsIn, queried, bpIn, dryRun, policy, outputFormat,
                   ci, nj, nsResults, results, ran, raisedAt, lastUnit>>

\* The binding-policy test after the helm operation and, when it passes,
\* _create_binding_policy; then final_result is returned.
BindingPolicyStep ==
    /\ FanFrame
    /\ pc = "policy"
    /\ \E p \in (IF PolicyWanted(site, bpIn, envelope)
                 THEN {CreateBindingPolicy(bpIn.wds_context, cur, outcome) :
                          cur \in {WdsContext} \cup {clusters[i] : i \in 1..Len(clusters)},
                          outcome \in ApplyOutcomes}
                 ELSE {NoPolicy}) :
        /\ policy' = p
        /\ envelope' = FinalResult(envelope, p)
    /\ pc' = "done"
    /\ UNCHANGED <<site, clusters, nsList, nsIn, queried, bpIn, dryRun, outputFormat, ci, nj,
                   nsResults, results, ran, raisedAt, lastUnit>>

\* namespace_utils / gvrc_discovery / non-follow logs: one per-cluster call,
\* whose own try/except turns every failure into a status "error" result.
ClusterOpStep ==
    /\ FanFrame
    /\ pc = "dispatch"
    /\ site \in ClusterSites
    /\ \E st \in {"success", "error"} :
        FinishCluster(ClusterOpResult(clusters[ci], st))
    /\ UNCHANGED <<site, clusters, nsList, nsIn, queried, bpIn, dryRun, policy, outputFormat, ran, raisedAt, lastUnit>>

FanNext ==
    \/ ResolveStep
    \/ KubectlStep
    \/ HelmStep
    \/ RaiseStep
    \/ HelmInfoStep
    \/ HelmInfoRaise
    \/ DispatchEmpty
    \/ ClusterOpStep
    \/ DryRunReturn
    \/ BindingPolicyStep

\* The steps of helm_deploy.execute.
HelmNext ==
    \/ ResolveStep
    \/ HelmStep
    \/ RaiseStep
    \/ HelmInfoStep
    \/ HelmInfoRaise
    \/ DispatchEmpty
    \/ DryRunReturn
    \/ BindingPolicyStep


(***************************************************************************)
(* The log follower of multicluster_logs (follow=True).                    *)
(*                                                                         *)
(* Task states: "created" (not yet run), "waiting" (queued on the          *)
(* semaphore), "acquired" (holds a permit, awaiting                        *)
(* create_subprocess_exec), "streaming" (holds a permit, reading lines),   *)
(* "done" (returned a dictionary), "cancelled".                            *)
(***************************************************************************)
Tasks == 1..fn

Holding == {c \in Tasks : tstate[c] \in {"acquired", "streaming"}}

Finished(c) == tstate[c] \in {"done", "cancelled"}

Running == {c \in Tasks : proc[c] = "running"}

NoFollowEnvelope == [status |-> "", clusters_total |-> 0, clusters_succeeded |-> 0]

FollowIdle ==
    /\ fn = 0
    /\ maxReq = 0
    /\ fpc = "idle"
    /\ tstate = <<>>
    /\ tresult = <<>>
    /\ proc = <<>>
    /\ exitCode = <<>>
    /\ permits = 0
    /\ waiters = <<>>
    /\ cancelReq = FALSE
    /\ fenv = NoFollowEnvelope
    /\ launched = {}
    /\ cancelSnap = [running |-> 0, waiting |-> 0]
    /\ waited = {}

\* semaphore = asyncio.Semaphore(max_requests); tasks = [...]; the schema
\* gives max_log_requests a minimum of 1.
FollowInit ==
    /\ fn \in 1..MaxFollow
    /\ maxReq \in 1..MaxReq
    /\ fpc = "gather"
    /\ tstate = [c \in 1..fn |-> "created"]
    /\ tresult = [c \in 1..fn |-> "none"]
    /\ proc = [c \in 1..fn |-> "none"]
    /\ exitCode = [c \in 1..fn |-> 0]
    /\ permits = maxReq
    /\ waiters = <<>>
    /\ cancelReq = FALSE
    /\ fenv = NoFollowEnvelope
    /\ launched = {}
    /\ cancelSnap = [running |-> 0, waiting |-> 0]
    /\ waited = {}

\* Semaphore.release(): the permit goes to the first waiter if there is one,
\* otherwise back to _value.  ts is the task-state map after the releasing
\* task has left its `async with` block.
ReleasePermit(ts) ==
    IF waiters # <<>>
    THEN /\ tstate' = [ts EXCEPT ![Head(waiters)] = "acquired"]
         /\ waiters' = Tail(waiters)
         /\ UNCHANGED permits
    ELSE /\ tstate' = ts
         /\ permits' = permits + 1
         /\ UNCHANGED waiters

\* Mutation of TaskExit: the permit is not given back when the task returns.
TaskExitLeak(c, res) ==
    /\ tresult' = [tresult EXCEPT ![c] = res]
    /\ tstate' = [tstate EXCEPT ![c] = "done"]
    /\ UNCHANGED <<permits, waiters>>

\* follow_cluster_logs returns res: `async with semaphore` releases the
\* permit on every way out of _follow_logs_from_cluster.
TaskExit(c, res) ==
    /\ tresult' = [tresult EXCEPT ![c] = res]
    /\ ReleasePermit([tstate EXCEPT ![c] = "done"])

\* First step of a task: `async with semaphore`.  The tasks gather() created
\* run their first step in creation order.
TaskStart(c) ==
    /\ FollowFrame
    /\ fpc = "gather"
    /\ c \in Tasks
    /\ tstate[c] = "created"
    /\ \A d \in Tasks : d < c => tstate[d] # "created"
    /\ IF permits > 0 /\ waiters = <<>>
       THEN /\ permits' = permits - 1
            /\ tstate' = [tstate EXCEPT ![c] = "acquired"]
            /\ UNCHANGED <<waiters, waited>>
       ELSE /\ waiters' = Append(waiters, c)
            /\ tstate' = [tstate EXCEPT ![c] = "waiting"]
            /\ waited' = waited \cup {c}
            /\ UNCHANGED permits
    /\ UNCHANGED <<fn, maxReq, fpc, tresult, proc, exitCode, cancelReq, fenv,
                   launched, cancelSnap>>

\* asyncio.create_subprocess_exec(kubectl logs -f ...): the child starts, or
\* the launch raises and the except branch returns status "error".
Launch(c) ==
    /\ FollowFrame
    /\ fpc = "gather"
    /\ c \in Tasks
    /\ tstate[c] = "acquired"
    /\ launched' = launched \cup {c}
    /\ \/ /\ proc' = [proc EXCEPT ![c] = "running"]
          /\ tstate' = [tstate EXCEPT ![c] = "streaming"]
          /\ UNCHANGED <<tresult, permits, waiters>>
       \/ /\ TaskExit(c, "error")
          /\ UNCHANGED proc
    /\ UNCHANGED <<fn, maxReq, fpc, exitCode, cancelReq, fenv, cancelSnap, waited>>

\* End of file on the child's stdout, then process.wait(): the task returns
\* status "success" without looking at the exit code.
StreamEnd(c) ==
    /\ FollowFrame
    /\ fpc = "gather"
    /\ c \in Tasks
    /\ tstate[c] = "streaming"
    /\ \E rc \in {0, 1} : exitCode' = [exitCode EXCEPT ![c] = rc]
    /\ proc' = [proc EXCEPT ![c] = "exited"]
    /\ TaskExit(c, "success")
    /\ UNCHANGED <<fn, maxReq, fpc, cancelReq, fenv, launched, cancelSnap, waited>>

\* An exception while streaming (readline() on an over-long line,
\* line.decode() on bytes that are not UTF-8): the except branch returns
\* status "error"; nothing terminates or awaits the child.
StreamException(c) ==
    /\ FollowFrame
    /\ fpc = "gather"
    /\ c \in Tasks
    /\ tstate[c] = "streaming"
    /\ TaskExit(c, "error")
    /\ UNCHANGED <<fn, maxReq, fpc, proc, exitCode, cancelReq, fenv, launched,
                   cancelSnap, waited>>

\* A child whose task is gone ends on its own; nobody collects its exit
\* code.
OrphanExit(c) ==
    /\ FollowFrame
    /\ c \in Tasks
    /\ Finished(c)
    /\ proc[c] = "running"
    /\ proc' = [proc EXCEPT ![c] = "exited"]
    /\ UNCHANGED <<fn, maxReq, fpc, tstate, tresult, exitCode, permits, waiters,
                   cancelReq, fenv, launched, cancelSnap, waited>>

\* The task awaiting gather() is cancelled: gather cancels every child that
\* has not finished.  CancelledError is not an Exception, so no except branch
\* of the children catches it; each child leaves its `async with` block,
\* giving its permit back, and no statement touches its child process.
Cancel ==
    /\ FollowFrame
    /\ fpc = "gather"
    /\ ~cancelReq
    /\ cancelReq' = TRUE
    /\ cancelSnap' = [running |-> Cardinality({c \in Tasks : tstate[c] = "streaming"}),
                      waiting |-> Len(waiters)]
    /\ tstate' = [c \in Tasks |-> IF Finished(c) THEN tstate[c] ELSE "cancelled"]
    /\ tresult' = [c \in Tasks |-> IF Finished(c) THEN tresult[c] ELSE "cancelled"]
    /\ permits' = permits + Cardinality(Holding)
    /\ waiters' = <<>>
    /\ UNCHANGED <<fn, maxReq, fpc, proc, exitCode, fenv, launched, waited>>

\* Mutation of FollowReturn: the cancellation is reported as an error.
FollowReturnCancelAsError(cancelled, res) ==
    IF cancelled
    THEN [status |-> "error", clusters_total |-> 0, clusters_succeeded |-> 0]
    ELSE LET n == Cardinality({c \in DOMAIN res : res[c] = "success"}) IN
         [status |-> RollupStatus(n),
          clusters_total |-> Cardinality(DOMAIN res),
          clusters_succeeded |-> n]

\* What _follow_logs_from_clusters returns once gather() is over: gather
\* raises CancelledError when it was cancelled, whatever return_exceptions
\* says, and the except branch answers "cancelled"; otherwise the summary.
FollowReturn(cancelled, res) ==
    IF cancelled
    THEN [status |-> "cancelled", clusters_total |-> 0, clusters_succeeded |-> 0]
    ELSE LET n == Cardinality({c \in DOMAIN res : res[c] = "success"}) IN
         [status |-> RollupStatus(n),
          clusters_total |-> Cardinality(DOMAIN res),
          clusters_succeeded |-> n]

\* gather() is over: every child has finished or was cancelled.
GatherReturn ==
    /\ FollowFrame
    /\ fpc = "gather"
    /\ \A c \in Tasks : Finished(c)
    /\ fenv' = FollowReturn(cancelReq, tresult)
    /\ fpc' = "returned"
    /\ UNCHANGED <<fn, maxReq, tstate, tresult, proc, exitCode, permits,
                   waiters, cancelReq, launched, cancelSnap, waited>>

FollowNext ==
    \/ \E c \in 1..MaxFollow : TaskStart(c)
    \/ \E c \in 1..MaxFollow : Launch(c)
    \/ \E c \in 1..MaxFollow : StreamEnd(c)
    \/ \E c \in 1..MaxFollow : StreamException(c)
    \/ \E c \in 1..MaxFollow : OrphanExit(c)
    \/ Cancel
    \/ GatherReturn

\* The event loop runs every task that can run, and every stream that was
\* started ends at some time; a cancellation may or may not come.
FollowFairness ==
    /\ \A c \in 1..MaxFollow : WF_vars(TaskStart(c))
    /\ \A c \in 1..MaxFollow : WF_vars(Launch(c))
    /\ \A c \in 1..MaxFollow : WF_vars(StreamEnd(c))
    /\ WF_vars(GatherReturn)

(***************************************************************************)
(* Cluster discovery.  A context name is a sequence of characters, so that *)
(* lower(), startswith() and `in` are computed on the name itself.         *)
(***************************************************************************)
ContextPool ==
    { <<"c", "1">>,
      <<"i", "t", "s", "1">>,
      <<"w", "d", "s", "1">>,
      <<"W", "D", "S", "2">>,
      <<"a", "-", "w", "d", "s", "-", "b">>,
      <<"a", "_", "W", "d", "s", "_", "b">>,
      <<"a", "w", "d", "s">> }

\* The lists of at most n distinct context names.
ContextLists(n) ==
    UNION {{l \in [1..k -> ContextPool] :
               \A i, j \in 1..k : i # j => l[i] # l[j]} : k \in 0..n}

DiscoverSites == {"create", "deploy_to", "helm_deploy", "namespace_utils",
                  "gvrc_discovery", "logs", "kubestellar_management"}

\* Mutation of KeepUnreachableSites: every call site drops an unreachable
\* context.
KeepUnreachableNowhere == {}

\* The call sites whose _discover_clusters appends an unreachable context
\* with status "Unreachable".
KeepUnreachableSites == {"deploy_to", "helm_deploy"}

UpperToLower == [W |-> "w", D |-> "d", S |-> "s"]

\* str.lower()
Lower(name) ==
    [i \in 1..Len(name) |->
        IF name[i] \in DOMAIN UpperToLower THEN UpperToLower[name[i]] ELSE name[i]]

\* str.startswith(prefix)
StartsWith(name, prefix) ==
    /\ Len(name) >= Len(prefix)
    /\ SubSeq(name, 1, Len(prefix)) = prefix

\* part in name
Contains(name, part) ==
    \E i \in 1..(Len(name) - Len(part) + 1) :
        SubSeq(name, i, i + Len(part) - 1) = part

\* _is_wds_cluster, the same in the six functions that define it.
IsWdsCluster(name) ==
    \/ StartsWith(Lower(name), <<"w", "d", "s">>)
    \/ Contains(Lower(name), <<"-", "w", "d", "s", "-">>)
    \/ Contains(Lower(name), <<"_", "w", "d", "s", "_">>)

\* The naming fallback of _classify_kubestellar_space.
ClassifyByName(name) ==
    LET low == Lower(name) IN
    IF StartsWith(low, <<"w", "d", "s">>) \/ Contains(low, <<"-", "w", "d", "s", "-">>)
    THEN "wds"
    ELSE IF StartsWith(low, <<"i", "t", "s">>) \/ Contains(low, <<"-", "i", "t", "s", "-">>)
    THEN "its"
    ELSE IF StartsWith(low, <<"w", "e", "c">>) \/ Contains(low, <<"-", "w", "e", "c", "-">>)
    THEN "wec"
    ELSE "standard"

\* _classify_kubestellar_space: ks and ocm are the resource names the two
\* `kubectl api-resources` queries list (empty when a query fails).
ClassifyKubestellarSpace(name, ks, ocm) ==
    IF "bindingpolicies" \in ks THEN "wds"
    ELSE IF "workstatuses" \in ks THEN "its"
    ELSE IF "managedclusters" \in ocm THEN "its"
    ELSE IF "manifestworks" \in ocm
    THEN IF \/ StartsWith(Lower(name), <<"w", "d", "s">>)
            \/ Contains(Lower(name), <<"-", "w", "d", "s", "-">>)
         THEN "wds"
         ELSE "wec"
    ELSE ClassifyByName(name)

(***************************************************************************)
(* What execute() does with the discovered list before any fan-out.       *)
(***************************************************************************)
NoReply == [status |-> "", error |-> "", available |-> <<>>]

\* {"status": "error", "error": "No clusters discovered"}
NoClustersReply ==
    [status |-> "error", error |-> "No clusters discovered", available |-> <<>>]

\* kubestellar_management words it differently.
NoKubeStellarReply ==
    [status |-> "error", error |-> "No KubeStellar clusters discovered",
     available |-> <<>>]

\* _list_available_clusters of deploy_to: a listing, status "success" even
\* when nothing was discovered.
ListingReply(all) ==
    [status |-> "success",
     error |-> "",
     available |-> [i \in 1..Len(all) |-> all[i].name]]

\* The input validation at the head of execute().
InvalidInputReply ==
    [status |-> "error", error |-> "invalid input", available |-> <<>>]

\* Mutation of NoMatchReply: the candidate list is left out.
NoMatchReplyBare(all) ==
    [status |-> "error",
     error |-> "No clusters match the selection criteria",
     available |-> <<>>]

\* "No clusters match the selection criteria", with every discovered
\* cluster attached.
NoMatchReply(all) ==
    [status |-> "error",
     error |-> "No clusters match the selection criteria",
     available |-> [i \in 1..Len(all) |-> all[i].name]]

FanoutSites == DiscoverSites \ {"kubestellar_management"}

SelectorSites == {"deploy_to", "helm_deploy"}

\* The sites whose execute() validates its inputs before discovery.
ValidatingSites == {"create", "deploy_to", "helm_deploy", "logs"}

\* Mutation of AfterDiscovery: the empty list is not looked at.
AfterDiscoveryUnchecked(s, all) ==
    IF s \in SelectorSites
    THEN [pc |-> "select", reply |-> NoReply]
    ELSE [pc |-> "proceed", reply |-> NoReply]

\* `if not clusters: return {...}` after _discover_clusters returned.
AfterDiscovery(s, all) ==
    IF all = <<>>
    THEN [pc |-> "returned",
          reply |-> IF s = "kubestellar_management" THEN NoKubeStellarReply
                    ELSE NoClustersReply]
    ELSE IF s \in SelectorSites
    THEN [pc |-> "select", reply |-> NoReply]
    ELSE [pc |-> "proceed", reply |-> NoReply]

(***************************************************************************)
(* The cluster selector of deploy_to and helm_deploy.                      *)
(***************************************************************************)
\* The entries a caller may put into target_clusters.
NameEntries ==
    { <<"c", "1">>,
      <<"c", "1", ",", "i", "t", "s", "1">>,
      <<"c", "1", ",", " ", "i", "t", "s", "1">>,
      <<"z", "z">> }

NameInputs(n) == UNION {[1..k -> NameEntries] : k \in 0..n}

LabelInputs == {<<>>, <<"env=prod">>}

RECURSIVE SplitComma(_)
\* str.split(",")
SplitComma(entry) ==
    IF \A i \in 1..Len(entry) : entry[i] # ","
    THEN <<entry>>
    ELSE LET i == CHOOSE k \in 1..Len(entry) :
                    entry[k] = "," /\ \A j \in 1..(k - 1) : entry[j] # ","
         IN <<SubSeq(entry, 1, i - 1)>> \o SplitComma(SubSeq(entry, i + 1, Len(entry)))

RECURSIVE Strip(_)
\* str.strip()
Strip(word) ==
    IF word = <<>> THEN word
    ELSE IF Head(word) = " " THEN Strip(Tail(word))
    ELSE IF word[Len(word)] = " " THEN Strip(SubSeq(word, 1, Len(word) - 1))
    ELSE word

\* name_set: every entry split on commas, every piece stripped.
NameSet(names) ==
    UNION { {Strip(SplitComma(names[i])[k]) : k \in 1..Len(SplitComma(names[i]))} :
            i \in 1..Len(names) }

\* Mutation of FilterClusters: the entries are matched whole, not split.
FilterClustersUnsplit(s, all, names, labels) ==
    IF names # <<>>
    THEN LET Keep(c) == \E i \in 1..Len(names) : names[i] = c.name
         IN SelectSeq(all, Keep)
    ELSE IF labels # <<>> THEN all
    ELSE IF s = "deploy_to" THEN <<>> ELSE all

\* _filter_clusters of deploy_to and helm_deploy; a cluster's name and its
\* context are the same string.
FilterClusters(s, all, names, labels) ==
    IF names # <<>>
    THEN LET Keep(c) == c.name \in NameSet(names)
         IN SelectSeq(all, Keep)
    ELSE IF labels # <<>> THEN all
    ELSE IF s = "deploy_to" THEN <<>> ELSE all

DiscIdle ==
    /\ dsite = "none"
    /\ includeWds = FALSE
    /\ contexts = <<>>
    /\ dpc = "idle"
    /\ di = 1
    /\ found = <<>>
    /\ probes = <<>>
    /\ listOnly = FALSE
    /\ selNames = <<>>
    /\ selLabels = <<>>
    /\ selected = <<>>
    /\ reply = NoReply

DiscInit ==
    /\ dsite \in DiscoverSites
    /\ includeWds \in (IF dsite = "kubestellar_management" THEN BOOLEAN ELSE {FALSE})
    /\ contexts \in ContextLists(MaxCtx)
    /\ dpc = "list"
    /\ di = 1
    /\ found = <<>>
    /\ probes = <<>>
    /\ listOnly \in (IF dsite = "deploy_to" THEN BOOLEAN ELSE {FALSE})
    /\ selNames = <<>>
    /\ selLabels = <<>>
    /\ selected = <<>>
    /\ reply = NoReply

\* kubectl config get-contexts -o name: a non-zero exit code returns [].
ListContexts ==
    /\ DiscFrame
    /\ dpc = "list"
    /\ \E rc \in {0, 1} : dpc' = IF rc = 0 THEN "loop" ELSE "done"
    /\ UNCHANGED <<dsite, includeWds, contexts, di, found, probes, headVars>>

AtContext(sites) ==
    /\ dpc = "loop"
    /\ dsite \in sites
    /\ di <= Len(contexts)

Visit(name, type, skipped, reachable) ==
    /\ probes' = Append(probes, [name |-> name, type |-> type,
                                 skipped |-> skipped, reachable |-> reachable])
    /\ di' = di + 1
    /\ UNCHANGED <<dsite, includeWds, contexts, dpc, headVars>>

\* _discover_clusters, one context: skipped when _is_wds_cluster, otherwise
\* probed with `kubectl cluster-info`.
DiscoverStep ==
    /\ DiscFrame
    /\ AtContext(DiscoverSites \ {"kubestellar_management"})
    /\ LET name == contexts[di] IN
       IF IsWdsCluster(name)
       THEN /\ Visit(name, "none", TRUE, FALSE)
            /\ UNCHANGED found
       ELSE \E rc \in {0, 1} :
            /\ Visit(name, "none", FALSE, rc = 0)
            /\ found' =
                 IF rc = 0
                 THEN Append(found, [name |-> name, status |-> "Ready", type |-> "none"])
                 ELSE IF dsite \in KeepUnreachableSites
                 THEN Append(found, [name |-> name, status |-> "Unreachable", type |-> "none"])
                 ELSE found

\* _discover_kubestellar_topology, one context: classified, skipped when the
\* type is "wds" and include_wds is off, otherwise probed and kept if
\* reachable.
ClassifyStep ==
    /\ DiscFrame
    /\ AtContext({"kubestellar_management"})
    /\ \E ks \in SUBSET {"bindingpolicies", "workstatuses"},
          ocm \in SUBSET {"managedclusters", "manifestworks"} :
       LET name == contexts[di]
           type == ClassifyKubestellarSpace(name, ks, ocm) IN
       IF type = "wds" /\ ~includeWds
       THEN /\ Visit(name, type, TRUE, FALSE)
            /\ UNCHANGED found
       ELSE \E rc \in {0, 1} :
            /\ Visit(name, type, FALSE, rc = 0)
            /\ found' =
                 IF rc = 0
                 THEN Append(found, [name |-> name, status |-> "Ready", type |-> type])
                 ELSE found

\* The loop is over: return the list.
DiscoverReturn ==
    /\ DiscFrame
    /\ dpc = "loop"
    /\ di > Len(contexts)
    /\ dpc' = "done"
    /\ UNCHANGED <<dsite, includeWds, contexts, di, found, probes, headVars>>

\* execute() returns on invalid inputs before discovering anything.
RejectInputs ==
    /\ DiscFrame
    /\ dpc = "list"
    /\ dsite \in ValidatingSites
    /\ ~listOnly
    /\ dpc' = "rejected"
    /\ reply' = InvalidInputReply
    /\ UNCHANGED <<dsite, includeWds, contexts, di, found, probes, listOnly,
                   selNames, selLabels, selected>>

\* deploy_to with list_clusters: the listing is the whole answer.
ListClusters ==
    /\ DiscFrame
    /\ dpc = "done"
    /\ listOnly
    /\ dpc' = "returned"
    /\ reply' = ListingReply(found)
    /\ UNCHANGED <<dsite, includeWds, contexts, di, found, probes, listOnly,
                   selNames, selLabels, selected>>

\* execute() looks at what discovery returned.
CheckDiscovered ==
    /\ DiscFrame
    /\ dpc = "done"
    /\ ~listOnly
    /\ dpc' = AfterDiscovery(dsite, found).pc
    /\ reply' = AfterDiscovery(dsite, found).reply
    /\ UNCHANGED <<dsite, includeWds, contexts, di, found, probes, listOnly,
                   selNames, selLabels, selected>>

\* selected_clusters = self._filter_clusters(...), and the early return when
\* nothing matches.  deploy_to gets here only with names or labels given.
SelectStep ==
    /\ DiscFrame
    /\ dpc = "select"
    /\ \E names \in NameInputs(MaxSel), labels \in LabelInputs :
        /\ dsite = "deploy_to" => (names # <<>> \/ labels # <<>>)
        /\ selNames' = names
        /\ selLabels' = labels
        /\ LET sel == FilterClusters(dsite, found, names, labels) IN
            /\ selected' = sel
            /\ dpc' = IF sel = <<>> THEN "returned" ELSE "proceed"
            /\ reply' = IF sel = <<>> THEN NoMatchReply(found) ELSE NoReply
    /\ UNCHANGED <<dsite, includeWds, contexts, di, found, probes, listOnly>>

DiscNext ==
    \/ SelectStep
    \/ ListContexts
    \/ DiscoverStep
    \/ ClassifyStep
    \/ DiscoverReturn
    \/ RejectInputs
    \/ ListClusters
    \/ CheckDiscovered

FanIdle ==
    /\ site = "none"
    /\ clusters = <<>>
    /\ nsList = <<>>
    /\ outputFormat = "summary"
    /\ pc = "idle"
    /\ ci = 1
    /\ nj = 1
    /\ nsResults = EmptyMap
    /\ results = EmptyMap
    /\ envelope = NoEnvelope
    /\ ran = {}
    /\ raisedAt = {}
    /\ lastUnit = NoUnit
    /\ nsIn = NoNsInput
    /\ queried = <<>>
    /\ bpIn = NoPolicyInput
    /\ dryRun = FALSE
    /\ policy = NoPolicy

(***************************************************************************)
(* One unit of work of multicluster_create / deploy_to: the command's      *)
(* result and the entry recorded for it.                                   *)
(***************************************************************************)
\* The pieces a command's output is made of.
Fragments == {"already exists", "not found", "connection refused"}

\* Output texts: sequences of at most n pieces; <<>> is the empty string.
Texts(n) == UNION {[1..k -> Fragments] : k \in 0..n}

\* `piece in text`
Mentions(text, piece) == \E i \in 1..Len(text) : text[i] = piece

\* What _run_command returns: a launch failure is exit code 1 with the
\* description on stderr and an empty stdout.
ProcessResults ==
    [returncode : {0, 1}, stdout : Texts(MaxText), stderr : Texts(MaxText)]

NoResult == [returncode |-> 0, stdout |-> <<>>, stderr |-> <<>>]

NoEntry == [status |-> "", error |-> <<>>, output |-> <<>>]

\* "Creation" in multicluster_create, "Deployment" in deploy_to.
FailedPrefix(s) == IF s = "create" THEN "Creation failed: " ELSE "Deployment failed: "

\* The friendly message with "not found" tested before "already exists".
FriendlyMessageNotFoundFirst(s, text) ==
    IF Mentions(text, "not found") THEN <<"Namespace or resource type not found">>
    ELSE IF Mentions(text, "already exists")
    THEN <<"Resource already exists in this namespace">>
    ELSE <<FailedPrefix(s)>> \o text

\* error_msg: the if / elif / else over error_output.
FriendlyMessage(s, text) ==
    IF Mentions(text, "already exists")
    THEN <<"Resource already exists in this namespace">>
    ELSE IF Mentions(text, "not found") THEN <<"Namespace or resource type not found">>
    ELSE <<FailedPrefix(s)>> \o text

\* error_output = result["stderr"] or result["stdout"]
ErrorOutput(r) == IF r.stderr # <<>> THEN r.stderr ELSE r.stdout

\* namespace_results[namespace] for a command that returned r.
UnitOutcome(s, r) ==
    IF r.returncode = 0
    THEN [status |-> "success", error |-> <<>>, output |-> r.stdout]
    ELSE [status |-> "error",
          error |-> FriendlyMessage(s, ErrorOutput(r)),
          output |-> ErrorOutput(r)]

UnitIdle ==
    /\ usite = "none"
    /\ upc = "idle"
    /\ uresult = NoResult
    /\ uentry = NoEntry

UnitInit ==
    /\ usite \in {"create", "deploy_to"}
    /\ upc = "run"
    /\ uresult = NoResult
    /\ uentry = NoEntry

\* result = await self._run_command(cmd), then the entry for the namespace.
RunUnit ==
    /\ UnitFrame
    /\ upc = "run"
    /\ \E r \in ProcessResults :
        /\ uresult' = r
        /\ uentry' = UnitOutcome(usite, r)
    /\ upc' = "done"
    /\ UNCHANGED usite

UnitNext == RunUnit

(***************************************************************************)
(* The labels of a Helm deployment and the selectors of its binding        *)
(* policy.                                                                 *)
(***************************************************************************)
\* Strings are sequences of pieces; "/" is a piece of its own.
ReleaseNames == {<<>>, <<"web">>}

ChartNames == {<<>>, <<"nginx">>, <<"repo", "/", "nginx">>}

ManagedBy == "app.kubernetes.io/managed-by"

Instance == "app.kubernetes.io/instance"

\* The keys a caller may put into kubestellar_labels.
CallerKeys == {ManagedBy, Instance, "team"}

CallerValues == {<<"x">>, <<"y">>}

\* kubestellar_labels: dictionaries of at most n entries.
CallerLabels(n) ==
    UNION {[ks -> CallerValues] : ks \in {k \in SUBSET CallerKeys : Cardinality(k) <= n}}

ClusterSelectorInputs == {EmptyMap, [x \in {"env"} |-> <<"prod">>]}

\* name.replace("/", "-")
DashForSlash(name) == [i \in 1..Len(name) |-> IF name[i] = "/" THEN "-" ELSE name[i]]

\* name.split("/")[-1]
RECURSIVE LastSegment(_)
LastSegment(name) ==
    IF \E i \in 1..Len(name) : name[i] = "/"
    THEN LastSegment(Tail(name))
    ELSE name

\* The release name execute() works with: the caller's, or the chart name
\* with dashes, or "helm-release".
DefaultRelease(release, chart) ==
    IF release # <<>> THEN release
    ELSE IF chart # <<>> THEN DashForSlash(chart)
    ELSE <<"helm-release">>

\* d.update(e)
Update(d, e) ==
    [k \in DOMAIN d \cup DOMAIN e |-> IF k \in DOMAIN e THEN e[k] ELSE d[k]]

\* _prepare_kubestellar_labels
PrepareKubestellarLabels(release, chart, additional) ==
    LET base == [k \in {ManagedBy, Instance, "kubestellar.io/helm-chart",
                        "kubestellar.io/helm-release"} |->
                    CASE k = ManagedBy -> <<"Helm">>
                      [] k = Instance -> release
                      [] k = "kubestellar.io/helm-chart" ->
                            IF chart # <<>> THEN DashForSlash(chart) ELSE release
                      [] OTHER -> release]
        named == IF chart # <<>>
                 THEN Update(base, [k \in {"app.kubernetes.io/name"} |-> LastSegment(chart)])
                 ELSE base
    IN Update(named, additional)

\* The object selectors and cluster selectors of _create_binding_policy.
PolicySelectors(release, labels, clusterLabels) ==
    [identity |-> [k \in {ManagedBy, Instance} |->
                      IF k = ManagedBy THEN <<"Helm">> ELSE release],
     additional |-> [k \in DOMAIN labels \ {ManagedBy, Instance} |-> labels[k]],
     cluster |-> IF clusterLabels # EmptyMap THEN clusterLabels
                 ELSE [k \in {"location-group"} |-> <<"edge">>]]

NoLabelInput ==
    [release |-> <<>>, chart |-> <<>>, labels |-> EmptyMap, cluster |-> EmptyMap]

NoSelectors == [identity |-> EmptyMap, additional |-> EmptyMap, cluster |-> EmptyMap]

LabelIdle ==
    /\ lpc = "idle"
    /\ lin = NoLabelInput
    /\ stamped = EmptyMap
    /\ selectors = NoSelectors

LabelInit ==
    /\ lpc = "start"
    /\ lin = NoLabelInput
    /\ stamped = EmptyMap
    /\ selectors = NoSelectors

\* helm_labels = self._prepare_kubestellar_labels(release_name, chart_name,
\* kubestellar_labels), after release_name got its default.
StampLabels ==
    /\ LabelFrame
    /\ lpc = "start"
    /\ \E release \in ReleaseNames, chart \in ChartNames,
          labels \in CallerLabels(MaxLabels), cl \in ClusterSelectorInputs :
        /\ lin' = [release |-> DefaultRelease(release, chart), chart |-> chart,
                   labels |-> labels, cluster |-> cl]
        /\ stamped' = PrepareKubestellarLabels(DefaultRelease(release, chart),
                                               chart, labels)
    /\ lpc' = "stamped"
    /\ UNCHANGED selectors

\* _create_binding_policy(binding_policy_name, release_name, helm_labels,
\* cluster_selector_labels, ...)
BuildPolicy ==
    /\ LabelFrame
    /\ lpc = "stamped"
    /\ selectors' = PolicySelectors(lin.release, stamped, lin.cluster)
    /\ lpc' = "policy"
    /\ UNCHANGED <<lin, stamped>>

LabelNext == StampLabels \/ BuildPolicy

(***************************************************************************)
(* The process runner: _run_command.                                       *)
(***************************************************************************)
\* Output of a child: chunks of bytes, "text" a chunk of valid UTF-8 and
\* "0xff" a byte that is not.
Chunks == {"text", "0xff"}

ByteStrings(n) == UNION {[1..k -> Chunks] : k \in 0..n}

ExitCodes == {0, 1, 2}

\* bytes.decode(): raises UnicodeDecodeError on a byte that is not UTF-8,
\* otherwise gives the text.
Decodable(b) == \A i \in 1..Len(b) : b[i] # "0xff"

NoChild ==
    [launch |-> "none", state |-> "none", code |-> 0, out |-> <<>>, err |-> <<>>,
     timedOut |-> FALSE]

NoReturn == [kind |-> "none", returncode |-> 0, stdout |-> <<>>, stderr |-> <<>>]

\* An exception that leaves _run_command.
RunnerRaise == [kind |-> "raised", returncode |-> 0, stdout |-> <<>>, stderr |-> <<>>]

\* A runner without its except branch.
RunnerFailureRaises(description) == RunnerRaise

\* except Exception as e: return {"returncode": 1, "stdout": "", "stderr": str(e)}
RunnerFailure(description) ==
    [kind |-> "dict", returncode |-> 1, stdout |-> <<>>, stderr |-> <<description>>]

\* The return after communicate(): the exit code and the decoded streams, or
\* the except branch when a stream does not decode.
RunnerResult(child) ==
    IF Decodable(child.out) /\ Decodable(child.err)
    THEN [kind |-> "dict", returncode |-> child.code,
          stdout |-> child.out, stderr |-> child.err]
    ELSE RunnerFailure("codec can't decode byte")

RunnerIdle ==
    /\ rsite = "none"
    /\ rpc = "idle"
    /\ rchild = NoChild
    /\ rret = NoReturn

RunnerInit ==
    /\ rsite \in {"fanout", "setup"}
    /\ rpc = "start"
    /\ rchild = NoChild
    /\ rret = NoReturn

\* create_subprocess_exec succeeds: the child runs, the runner awaits
\* communicate().
ChildLaunch ==
    /\ RunnerFrame
    /\ rpc = "start"
    /\ rchild' = [rchild EXCEPT !.launch = "ok", !.state = "running"]
    /\ rpc' = "waiting"
    /\ UNCHANGED <<rsite, rret>>

\* create_subprocess_exec raises (binary missing, permission denied).
ChildLaunchFails ==
    /\ RunnerFrame
    /\ rpc = "start"
    /\ rchild' = [rchild EXCEPT !.launch = "failed"]
    /\ rret' = RunnerFailure("launch failed")
    /\ rpc' = "returned"
    /\ UNCHANGED rsite

\* The child exits, having written its output.
ChildExits ==
    /\ RunnerFrame
    /\ rpc = "waiting"
    /\ rchild.state = "running"
    /\ \E code \in ExitCodes, out \in ByteStrings(MaxChunks), err \in ByteStrings(MaxChunks) :
        rchild' = [rchild EXCEPT !.state = "exited", !.code = code,
                                 !.out = out, !.err = err]
    /\ UNCHANGED <<rsite, rpc, rret>>

\* communicate() returns once the child has exited; the streams are decoded
\* and the dictionary is returned.
RunnerReturn ==
    /\ RunnerFrame
    /\ rpc = "waiting"
    /\ rchild.state = "exited"
    /\ rret' = RunnerResult(rchild)
    /\ rpc' = "returned"
    /\ UNCHANGED <<rsite, rchild>>

\* kubestellar_setup only: asyncio.wait_for gives up after `timeout` seconds
\* while the child is still running.
RunnerTimeout ==
    /\ RunnerFrame
    /\ rsite = "setup"
    /\ rpc = "waiting"
    /\ rchild.state = "running"
    /\ rchild' = [rchild EXCEPT !.timedOut = TRUE]
    /\ rret' = RunnerFailure("Command timed out")
    /\ rpc' = "returned"
    /\ UNCHANGED rsite

RunnerNext ==
    \/ ChildLaunch
    \/ ChildLaunchFails
    \/ ChildExits
    \/ RunnerReturn
    \/ RunnerTimeout

(***************************************************************************)
(* The function registry of base_functions.                                *)
(***************************************************************************)
FunctionNames == {"create", "deploy_to", "logs"}

\* Function objects: two distinct objects may carry the same name.
FunctionObjects == [name : FunctionNames, id : 1..2]

\* self._functions = {}: a dict keeps its keys in insertion order.
EmptyRegistry == [keys |-> <<>>, val |-> EmptyMap]

\* A register() that keeps the entry a name already has.
RegisterKeepFirst(reg, f) ==
    IF f.name \in DOMAIN reg.val THEN reg
    ELSE [keys |-> Append(reg.keys, f.name), val |-> Put(reg.val, f.name, f)]

\* self._functions[function.name] = function
Register(reg, f) ==
    [keys |-> IF f.name \in DOMAIN reg.val THEN reg.keys ELSE Append(reg.keys, f.name),
     val |-> Put(reg.val, f.name, f)]

None == [name |-> "", id |-> 0]

\* self._functions.get(name)
Get(reg, name) == IF name \in DOMAIN reg.val THEN reg.val[name] ELSE None

\* list(self._functions.values())
ListAll(reg) == [i \in 1..Len(reg.keys) |-> reg.val[reg.keys[i]]]

\* {name: func.get_schema() for name, func in self._functions.items()}
GetSchemas(reg) == [n \in DOMAIN reg.val |-> [schema_of |-> reg.val[n]]]

RegistryIdle ==
    /\ gpc = "idle"
    /\ registry = EmptyRegistry
    /\ registered = <<>>

RegistryInit ==
    /\ gpc = "open"
    /\ registry = EmptyRegistry
    /\ registered = <<>>

\* registry.register(function)
RegisterStep ==
    /\ RegistryFrame
    /\ gpc = "open"
    /\ Len(registered) < MaxRegs
    /\ \E f \in FunctionObjects :
        /\ registry' = Register(registry, f)
        /\ registered' = Append(registered, f)
    /\ UNCHANGED gpc

RegistryNext == RegisterStep

(***************************************************************************)
(* The non-streaming dispatch loop with a unit as an interval: its         *)
(* external process starts, runs and completes.                            *)
(***************************************************************************)
SeqIdle ==
    /\ qpc = "idle"
    /\ qn = 0
    /\ qm = 0
    /\ qi = 1
    /\ qj = 1
    /\ flight = {}
    /\ order = <<>>
    /\ finished = EmptyMap

\* for cluster in clusters: ... for namespace in target_namespaces:
SeqInit ==
    /\ qpc = "head"
    /\ qn \in 1..MaxClusters
    /\ qm \in 1..MaxNs
    /\ qi = 1
    /\ qj = 1
    /\ flight = {}
    /\ order = <<>>
    /\ finished = EmptyMap

\* The loop indices after the unit (i, j): the next namespace, or the first
\* namespace of the next cluster.
AfterUnit(i, j, m) == IF j < m THEN <<i, j + 1>> ELSE <<i + 1, 1>>

\* A dispatcher that starts the unit and goes on without awaiting it.
BeginUnitNoAwait ==
    /\ SeqFrame
    /\ qpc = "head"
    /\ qi <= qn
    /\ flight' = flight \cup {<<qi, qj>>}
    /\ order' = Append(order, <<qi, qj>>)
    /\ qi' = AfterUnit(qi, qj, qm)[1]
    /\ qj' = AfterUnit(qi, qj, qm)[2]
    /\ UNCHANGED <<qpc, qn, qm, finished>>

\* result = await self._run_command(cmd): the process of unit (qi, qj) is
\* launched and the loop is suspended on it.
BeginUnit ==
    /\ SeqFrame
    /\ qpc = "head"
    /\ qi <= qn
    /\ flight' = flight \cup {<<qi, qj>>}
    /\ order' = Append(order, <<qi, qj>>)
    /\ qpc' = "awaiting"
    /\ UNCHANGED <<qn, qm, qi, qj, finished>>

\* The process of a unit in flight exits; the loop that awaits it records the
\* outcome and moves on, and returns after the last unit.
EndUnit ==
    /\ SeqFrame
    /\ \E u \in flight, rc \in {0, 1} :
        /\ flight' = flight \ {u}
        /\ finished' = Put(finished, u, rc)
        /\ IF qpc = "awaiting" /\ u = <<qi, qj>>
           THEN /\ qi' = AfterUnit(qi, qj, qm)[1]
                /\ qj' = AfterUnit(qi, qj, qm)[2]
                /\ qpc' = IF AfterUnit(qi, qj, qm)[1] > qn THEN "done" ELSE "head"
           ELSE UNCHANGED <<qi, qj, qpc>>
    /\ UNCHANGED <<qn, qm, order>>

\* The unit raises while its command is being built, before any process: the
\* per-cluster except branch ends the cluster.
UnitThrows ==
    /\ SeqFrame
    /\ qpc = "head"
    /\ qi <= qn
    /\ order' = Append(order, <<qi, qj>>)
    /\ qi' = qi + 1
    /\ qj' = 1
    /\ qpc' = IF qi + 1 > qn THEN "done" ELSE "head"
    /\ UNCHANGED <<qn, qm, flight, finished>>

SeqNext == BeginUnit \/ EndUnit \/ UnitThrows

(***************************************************************************)
(* kubestellar_management: which of the discovered clusters are analysed.  *)
(***************************************************************************)
\* The default of all_clusters in execute()'s signature and in the schema.
AllClustersDefault == TRUE

MgmtIdle ==
    /\ kpc = "idle"
    /\ kdiscovered = <<>>
    /\ knames = {}
    /\ kall = AllClustersDefault
    /\ kanalysed = <<>>
    /\ kreply = ""

\* A call of execute(): any discovered topology, any cluster_names, and
\* all_clusters given or left at its default.
MgmtInit ==
    /\ kpc = "called"
    /\ \E n \in 0..MaxClusters : kdiscovered = SubSeq(ClusterNames, 1, n)
    /\ knames \in SUBSET {ClusterNames[i] : i \in 1..Len(ClusterNames)}
    /\ kall \in {AllClustersDefault, FALSE}
    /\ kanalysed = <<>>
    /\ kreply = ""

\* if cluster_names and not all_clusters:
\*     clusters = [c for c in clusters if c["name"] in cluster_names]
FilterByName(clusters_, names, all_clusters) ==
    IF names # {} /\ ~all_clusters
    THEN SelectSeq(clusters_, LAMBDA c : c \in names)
    ELSE clusters_

\* if not clusters: return {"status": "error", ...}
NoTopology ==
    /\ MgmtFrame
    /\ kpc = "called"
    /\ kdiscovered = <<>>
    /\ kreply' = "error"
    /\ kpc' = "returned"
    /\ UNCHANGED <<kdiscovered, knames, kall, kanalysed>>

\* The filter, then the operation on the clusters that are left.
Analyse ==
    /\ MgmtFrame
    /\ kpc = "called"
    /\ kdiscovered # <<>>
    /\ kanalysed' = FilterByName(kdiscovered, knames, kall)
    /\ kreply' = "analysis"
    /\ kpc' = "returned"
    /\ UNCHANGED <<kdiscovered, knames, kall>>

MgmtNext == NoTopology \/ Analyse

(***************************************************************************)
(* Specifications.                                                         *)
(***************************************************************************)
Init == FanInit /\ FollowIdle /\ DiscIdle /\ UnitIdle /\ LabelIdle /\ RunnerIdle /\ RegistryIdle /\ SeqIdle /\ MgmtIdle

Next == FanNext

Spec == Init /\ [][Next]_vars

FollowStart == FanIdle /\ FollowInit /\ DiscIdle /\ UnitIdle /\ LabelIdle /\ RunnerIdle /\ RegistryIdle /\ SeqIdle /\ MgmtIdle

FollowSpec == FollowStart /\ [][FollowNext]_vars

FairFollowSpec == FollowSpec /\ FollowFairness

DiscoverStart == FanIdle /\ FollowIdle /\ DiscInit /\ UnitIdle /\ LabelIdle /\ RunnerIdle /\ RegistryIdle /\ SeqIdle /\ MgmtIdle

DiscoverSpec == DiscoverStart /\ [][DiscNext]_vars

HelmStart == HelmInit /\ FollowIdle /\ DiscIdle /\ UnitIdle /\ LabelIdle /\ RunnerIdle /\ RegistryIdle /\ SeqIdle /\ MgmtIdle

HelmSpec == HelmStart /\ [][HelmNext]_vars

UnitStart == FanIdle /\ FollowIdle /\ DiscIdle /\ UnitInit /\ LabelIdle /\ RunnerIdle /\ RegistryIdle /\ SeqIdle /\ MgmtIdle

UnitSpec == UnitStart /\ [][UnitNext]_vars

LabelStart == FanIdle /\ FollowIdle /\ DiscIdle /\ UnitIdle /\ LabelInit /\ RunnerIdle /\ RegistryIdle /\ SeqIdle /\ MgmtIdle

LabelSpec == LabelStart /\ [][LabelNext]_vars

RunnerStart == FanIdle /\ FollowIdle /\ DiscIdle /\ UnitIdle /\ LabelIdle /\ RunnerInit /\ RegistryIdle /\ SeqIdle /\ MgmtIdle

RunnerSpec == RunnerStart /\ [][RunnerNext]_vars

RegistryStart == FanIdle /\ FollowIdle /\ DiscIdle /\ UnitIdle /\ LabelIdle /\ RunnerIdle /\ RegistryInit /\ SeqIdle /\ MgmtIdle

RegistrySpec == RegistryStart /\ [][RegistryNext]_vars

SeqStart == FanIdle /\ FollowIdle /\ DiscIdle /\ UnitIdle /\ LabelIdle /\ RunnerIdle /\ RegistryIdle /\ SeqInit /\ MgmtIdle

SeqSpec == SeqStart /\ [][SeqNext]_vars

MgmtStart == FanIdle /\ FollowIdle /\ DiscIdle /\ UnitIdle /\ LabelIdle /\ RunnerIdle /\ RegistryIdle /\ SeqIdle /\ MgmtInit

MgmtSpec == MgmtStart /\ [][MgmtNext]_vars

(***************************************************************************)
(* Properties of the fan-out.                                              *)
(***************************************************************************)
FanoutDone == pc = "done" /\ envelope.kind = "fanout"

\* Number of unit outcomes the returned result maps hold.
RecordedUnits ==
    SumOver([c \in DOMAIN results |->
                Cardinality(DOMAIN results[c].namespace_results)],
            DOMAIN results)

\* C1: for every selected cluster list C and every namespace list N the
\* fan-out of create, deploy_to and helm_deploy (install/upgrade) records
\* exactly |C| x |N| unit outcomes.  Stated here for the runs in which no
\* unit raises; the raising runs lose outcomes too (C5).
C1_OneOutcomePerPair ==
    (FanoutDone /\ site \in GuardedSites /\ raisedAt = {})
        => RecordedUnits = Len(clusters) * Len(nsList)

\* The entry recorded for the unit the latest step executed.
LastUnitEntries ==
    LET c == clusters[lastUnit.cluster]
        n == nsList[lastUnit.ns]
        m == IF c \in DOMAIN results THEN results[c].namespace_results
             ELSE nsResults
    IN {m[k] : k \in DOMAIN m \cap {n}}

AllRecordedEntries ==
    {nsResults[k] : k \in DOMAIN nsResults}
    \cup UNION {{results[c].namespace_results[k] :
                     k \in DOMAIN results[c].namespace_results} :
                c \in DOMAIN results}

\* C2: every recorded unit outcome has status "success" or "error", and a
\* unit whose external action exits with code 0 is recorded with status
\* "success" and counted in namespaces_succeeded, whatever the release-status
\* query and the secret labelling of the Helm path return.
C2_ExitZeroIsSuccess ==
    /\ \A e \in AllRecordedEntries : e.status \in {"success", "error"}
    /\ (site \in GuardedSites /\ lastUnit.cluster # 0 /\ ~lastUnit.raised
            /\ lastUnit.rc = 0)
        => /\ \A e \in LastUnitEntries : e.status = "success"
           /\ LastUnitEntries # {}
           /\ clusters[lastUnit.cluster] \in DOMAIN results
                => results[clusters[lastUnit.cluster]].namespaces_succeeded >= 1

\* C3: every per-cluster outcome of the create, deploy_to and helm_deploy
\* fan-out carries counts with succeeded + failed = total, and its status is
\* "success" exactly when namespaces_succeeded > 0.
C3_ClusterCounts ==
    site \in UnitSites =>
        \A c \in DOMAIN results :
            LET r == results[c] IN
            /\ r.hasCounts
            /\ r.namespaces_succeeded + r.namespaces_failed = r.namespaces_total
            /\ (r.status = "success" <=> r.namespaces_succeeded > 0)

SelectedSet == {clusters[i] : i \in 1..Len(clusters)}

EnvelopeCounts ==
    /\ envelope.clusters_succeeded + envelope.clusters_failed
           = envelope.clusters_total
    /\ envelope.clusters_total = Len(clusters)
    /\ (envelope.status = "success" <=> envelope.clusters_succeeded > 0)
    /\ envelope.clusters_succeeded
           = Cardinality({c \in SelectedSet : results[c].status = "success"})

SummaryFormat == site = "gvrc_discovery" /\ outputFormat = "summary"

EnvelopeRollup ==
    FanoutDone =>
        /\ EnvelopeCounts
        /\ ~SummaryFormat => envelope.perCluster = SelectedSet

\* C5: a unit of work that raises is recorded as an "error" outcome of its
\* (cluster, namespace) pair carrying the exception message, and every
\* remaining namespace of that cluster and every remaining cluster still runs.
C5_RaiseIsolated ==
    (pc = "done" /\ site \in GuardedSites) =>
        \A u \in raisedAt :
            LET r == results[clusters[u[1]]] IN
            /\ nsList[u[2]] \in DOMAIN r.namespace_results
            /\ r.namespace_results[nsList[u[2]]].status = "error"
            /\ r.namespace_results[nsList[u[2]]].error = "exception"
            /\ \A i \in 1..Len(clusters), j \in 1..Len(nsList) : <<i, j>> \in ran

(***************************************************************************)
(* Properties of the log follower.                                         *)
(***************************************************************************)

\* C6: in follow mode at most max_log_requests log-stream subprocesses run
\* at the same time.
C6_AtMostMaxRunning == Cardinality(Running) <= maxReq

\* C7: once the cancelled follow operation has returned, no stream
\* subprocess is still running.
C7_NoneRunningAfterCancel ==
    (fpc = "returned" /\ fenv.status = "cancelled") => Running = {}

\* C8: a follow operation cancelled from outside returns status "cancelled",
\* whatever number of streams were running or queued.
C8_CancelReported ==
    (fpc = "returned" /\ cancelReq) => fenv.status = "cancelled"

C8_Witness ==
    /\ fpc = "returned"
    /\ cancelReq
    /\ cancelSnap.running > 0
    /\ cancelSnap.waiting > 0
    /\ fenv.status = "cancelled"

\* Every permit is either in the semaphore or held by a task inside its
\* `async with` block; a queued task found the semaphore empty.
PermitsAccounted ==
    /\ permits + Cardinality(Holding) = maxReq
    /\ waiters # <<>> => permits = 0

\* C9: the permit is given back on every way out of a stream task, and when
\* every started stream ends, every selected cluster's stream launch is
\* reached (unless the operation is cancelled first).
C9_QueuedStreamsStart ==
    /\ []PermitsAccounted
    /\ \A c \in 1..MaxFollow : <>(c > fn \/ c \in launched \/ cancelReq)

\* A cluster that queued behind max_log_requests streams is streaming after
\* one stream ended normally and another one ended with an error.
C9_Witness ==
    /\ ~cancelReq
    /\ fn > maxReq
    /\ \E c \in waited : c \in launched /\ tstate[c] = "streaming"
    /\ \E d \in Tasks : tresult[d] = "success"
    /\ \E d \in Tasks : tresult[d] = "error"

(***************************************************************************)
(* Properties of cluster discovery.                                        *)
(***************************************************************************)
Returned == {found[i].name : i \in 1..Len(found)}

\* C10: without the include flag, discovery returns no context whose name
\* matches the naming heuristic, whatever API resources the context exposes.
C10_WdsNamesExcluded ==
    ~includeWds => \A name \in Returned : ~IsWdsCluster(name)

\* C10, second part: with the include flag, a reachable context whose name
\* matches the heuristic is returned.
C10_IncludedWhenFlagged ==
    (dpc = "done" /\ includeWds) =>
        \A i \in 1..Len(probes) :
            (IsWdsCluster(probes[i].name) /\ probes[i].reachable)
                => probes[i].name \in Returned

UnreachableProbes == {i \in 1..Len(probes) : ~probes[i].skipped /\ ~probes[i].reachable}

\* C11: a context whose probe fails is dropped by multicluster_create,
\* deploy_to and helm_deploy, and kept, marked unreachable, by
\* namespace_utils and gvrc_discovery.
C11_DropOrKeepAsClaimed ==
    \A i \in UnreachableProbes :
        /\ dsite \in {"create", "deploy_to", "helm_deploy"}
              => probes[i].name \notin Returned
        /\ dsite \in {"namespace_utils", "gvrc_discovery"}
              => \E j \in 1..Len(found) :
                    found[j].name = probes[i].name /\ found[j].status = "Unreachable"

\* C11 as the code has it: deploy_to and helm_deploy keep a context whose
\* probe fails, with status "Unreachable"; every other call site drops it;
\* and whatever is returned with status "Ready" answered its probe.
C11_UnreachableBySite ==
    /\ \A i \in UnreachableProbes :
        IF dsite \in {"deploy_to", "helm_deploy"}
        THEN \E j \in 1..Len(found) :
                found[j].name = probes[i].name /\ found[j].status = "Unreachable"
        ELSE probes[i].name \notin Returned
    /\ \A j \in 1..Len(found) :
        found[j].status = "Ready" =>
            \E i \in 1..Len(probes) :
                probes[i].name = found[j].name /\ probes[i].reachable

C11_Witness ==
    /\ dpc = "done"
    /\ dsite = "helm_deploy"
    /\ Len(found) = 2
    /\ found[1].status = "Unreachable"
    /\ found[2].status = "Ready"

(***************************************************************************)
(* Properties of the head of execute().                                    *)
(***************************************************************************)
AfterCheck == dpc \in {"returned", "select", "proceed", "dispatch"}

\* C12: whenever discovery yields no clusters, each fan-out operation
\* returns {status: "error", error: "No clusters discovered"}, and nothing
\* is selected or dispatched afterwards.
C12_NoClustersReply ==
    (dsite \in FanoutSites /\ ~listOnly /\ AfterCheck /\ found = <<>>)
        => /\ dpc = "returned"
           /\ reply = NoClustersReply
           /\ selected = <<>>

\* Every context was visited and none survived: the error is returned.
C12_Witness ==
    /\ dsite = "gvrc_discovery"
    /\ Len(probes) = 2
    /\ found = <<>>
    /\ dpc = "returned"
    /\ reply.error = "No clusters discovered"

(***************************************************************************)
(* Properties of the cluster selector.                                     *)
(***************************************************************************)
\* The pieces of an entry: what lies between two commas or an end.
Pieces(entry) ==
    { SubSeq(entry, a, b) :
        <<a, b>> \in { ab \in (1..(Len(entry) + 1)) \X (0..Len(entry)) :
            /\ ab[2] >= ab[1] - 1
            /\ (ab[1] = 1 \/ entry[ab[1] - 1] = ",")
            /\ (ab[2] = Len(entry) \/ entry[ab[2] + 1] = ",")
            /\ \A k \in ab[1]..ab[2] : entry[k] # "," } }

\* The reference selector, given the set of names the entries stand for.
RefSelect(s, all, wanted, names, labels) ==
    IF names # <<>>
    THEN LET Keep(c) == c.name \in wanted IN SelectSeq(all, Keep)
    ELSE IF labels # <<>> THEN all
    ELSE IF s = "helm_deploy" THEN all ELSE <<>>

\* Split on commas, nothing more.
SplitOnly(names) == UNION {Pieces(names[i]) : i \in 1..Len(names)}

\* Split on commas, each piece without its surrounding blanks.
SplitTrimmed(names) == {Strip(w) : w \in SplitOnly(names)}

SelectionDone ==
    /\ dsite \in SelectorSites
    /\ dpc = "proceed" \/ reply.error = "No clusters match the selection criteria"

\* C13: the selector equals the reference that splits every entry on commas
\* and keeps, in discovery order, the clusters whose name is in that set.
C13_SelectorAsClaimed ==
    SelectionDone =>
        selected = RefSelect(dsite, found, SplitOnly(selNames), selNames, selLabels)

\* C13 with the trimming the code does: for the list discovery returned and
\* every names/labels input the selector equals the reference in which every
\* comma-separated piece is stripped of surrounding blanks; without names
\* the function gives the whole list or, in deploy_to without labels, none.
C13_SelectorTrimmed ==
    /\ \A s \in SelectorSites, labels \in LabelInputs :
          FilterClusters(s, found, <<>>, labels)
              = RefSelect(s, found, {}, <<>>, labels)
    /\ SelectionDone =>
          selected = RefSelect(dsite, found, SplitTrimmed(selNames), selNames, selLabels)

\* names = ["c1, its1"] selected both clusters, in discovery order.
C13_Witness ==
    /\ SelectionDone
    /\ selNames = << <<"c", "1", ",", " ", "i", "t", "s", "1">> >>
    /\ Len(found) = 2
    /\ selected = found

\* C14: when the selection matches no discovered cluster, deploy_to and
\* helm_deploy return status "error", "No clusters match the selection
\* criteria" and the list of every discovered cluster, and go no further.
C14_NoMatchReply ==
    (SelectionDone /\ selected = <<>>)
        => /\ dpc = "returned"
           /\ reply.status = "error"
           /\ reply.error = "No clusters match the selection criteria"
           /\ Len(reply.available) = Len(found)
           /\ \A i \in 1..Len(found) : reply.available[i] = found[i].name

\* Two clusters were discovered, one of them unreachable, and the names
\* given match neither.
C14_Witness ==
    /\ dsite = "helm_deploy"
    /\ selNames = << <<"z", "z">> >>
    /\ Len(found) = 2
    /\ found[2].status = "Unreachable"
    /\ selected = <<>>
    /\ dpc = "returned"
    /\ Len(reply.available) = 2

(***************************************************************************)
(* Namespace resolution (C15 - C17).                                       *)
(***************************************************************************)
\* The resolution of this operation has happened.
Resolved == site \in UnitSites /\ pc \in {"dispatch", "done"}

\* The one query of this operation succeeded.
QuerySucceeded == queried # <<>> /\ queried[Len(queried)].rc = 0

\* The one query of this operation failed.
QueryFailed == queried # <<>> /\ queried[Len(queried)].rc # 0

\* [namespace] if a namespace was given, ['default'] otherwise.
Fallback(in) == IF in.namespace # "" THEN <<in.namespace>> ELSE <<"default">>

\* C15: the resolved list is the explicit list, unchanged and without a
\* query, whenever that list is non-empty; otherwise the names the query
\* returned if all_namespaces or a selector is set and the query succeeded;
\* otherwise [namespace] if a namespace was given; otherwise ['default'].
C15_ResolutionOrder ==
    Resolved =>
        IF nsIn.explicit # <<>>
        THEN nsList = nsIn.explicit /\ queried = <<>>
        ELSE IF (nsIn.all_namespaces \/ nsIn.selector # "") /\ QuerySucceeded
        THEN nsList = queried[Len(queried)].out
        ELSE nsList = Fallback(nsIn)

\* C16: when all_namespaces or a selector is set and the namespace query
\* fails, the resolved list is [namespace] if the caller supplied a namespace
\* and ['default'] otherwise, at every call site, and the operation goes on
\* to its fan-out with that list.
C16_QueryFailureFallback ==
    (Resolved /\ (nsIn.all_namespaces \/ nsIn.selector # "") /\ QueryFailed) =>
        /\ nsList = Fallback(nsIn)
        /\ envelope.kind = "exception" => raisedAt # {}

\* The outcome of the query this operation ran, or of none.
TheQuery ==
    IF queried = <<>> THEN NoQuery
    ELSE [rc |-> queried[1].rc, out |-> queried[1].out]

\* The names of a list.
Names(l) == {l[i] : i \in 1..Len(l)}

\* C17: within one create / deploy_to / helm operation the namespace list is
\* resolved once, by at most one query, which goes to the first selected
\* cluster; no unit runs before the resolution; and every cluster that has a
\* per-namespace result map has the names of that one list as its keys.
C17_ResolvedOnceForAll ==
    site \in UnitSites =>
        /\ Len(queried) <= 1
        /\ \A i \in 1..Len(queried) : queried[i].cluster = clusters[1]
        /\ pc = "resolve" => (ran = {} /\ results = EmptyMap /\ queried = <<>>)
        /\ Resolved =>
              /\ nsList = ResolveTargetNamespaces(site, nsIn, TheQuery)
              /\ queried # <<>> <=> RunsQuery(nsIn)
              /\ \A c \in DOMAIN results :
                    results[c].hasResults =>
                        DOMAIN results[c].namespace_results = Names(nsList)

C17_Witness ==
    /\ site = "deploy_to"
    /\ pc = "done"
    /\ Len(clusters) = 2
    /\ Len(queried) = 1
    /\ queried[1].rc = 0
    /\ Len(nsList) = 2
    /\ \A c \in {clusters[1], clusters[2]} :
          /\ c \in DOMAIN results
          /\ results[c].hasResults
          /\ Cardinality(DOMAIN results[c].namespace_results) = 2

(***************************************************************************)
(* The error message of a failed unit (C18).                               *)
(***************************************************************************)
\* A unit of create / deploy_to has failed and its entry is recorded.
FailedUnit == upc = "done" /\ uresult.returncode # 0

\* The message the three rules give for a text, in the order of the claim.
RuleMessage(s, text) ==
    IF Mentions(text, "already exists")
    THEN <<"Resource already exists in this namespace">>
    ELSE IF Mentions(text, "not found") THEN <<"Namespace or resource type not found">>
    ELSE <<FailedPrefix(s)>> \o text

\* C18 as claimed: for every failed unit of create and deploy_to the rules
\* are applied, in order, to the stderr text combined with the stdout text,
\* and that raw text is returned unchanged beside the message.
C18_MessageFromCombinedText ==
    FailedUnit =>
        /\ uentry.error = RuleMessage(usite, uresult.stderr \o uresult.stdout)
        /\ uentry.output = uresult.stderr \o uresult.stdout

\* C18: for every failed unit of create and deploy_to the rules are applied,
\* in order ('already exists', then 'not found', then the generic
\* '<Operation> failed: <raw text>'), to stderr, or to stdout when stderr is
\* empty, and that same text is returned unchanged beside the message.
C18_MessageFromErrorOutput ==
    FailedUnit =>
        LET raw == IF uresult.stderr = <<>> THEN uresult.stdout ELSE uresult.stderr IN
        /\ uentry.status = "error"
        /\ uentry.error = RuleMessage(usite, raw)
        /\ uentry.output = raw

C18_Witness ==
    /\ FailedUnit
    /\ usite = "deploy_to"
    /\ uresult.stderr = <<"not found", "already exists">>
    /\ uresult.stdout # <<>>
    /\ uentry.error = <<"Resource already exists in this namespace">>
    /\ uentry.output = uresult.stderr

(***************************************************************************)
(* The binding policy of helm_deploy (C19, C20).                           *)
(***************************************************************************)
\* C19: helm_deploy invokes binding-policy creation only when
\* create_binding_policy is true, the operation is install or upgrade and the
\* overall status of the deployment is 'success'; never for uninstall, status
\* or history, never in a dry run, never when every cluster failed, and only
\* after every cluster's units have completed and `result` is built.
C19_PolicyOnlyAfterSuccess ==
    policy.invoked =>
        /\ bpIn.create
        /\ site = "helm_deploy"
        /\ pc = "done"
        /\ envelope.kind = "fanout"
        /\ envelope.status = "success"
        /\ \E c \in DOMAIN results : results[c].status = "success"
        /\ ci = Len(clusters) + 1
        /\ DOMAIN results = {clusters[i] : i \in 1..Len(clusters)}

C19_Witness ==
    /\ policy.invoked
    /\ policy.status = "success"
    /\ site = "helm_deploy"
    /\ Len(clusters) = 2
    /\ results[clusters[1]].status = "error"
    /\ results[clusters[2]].status = "success"
    /\ Cardinality(ran) = 2 * Len(nsList)

\* C20: the binding policy is applied to a context that is none of the
\* workload clusters selected for the deployment, whatever wds_context is.
C20_PolicyOffWorkloadClusters ==
    (policy.invoked /\ policy.applied) =>
        \A i \in 1..Len(clusters) : policy.context # clusters[i]

(***************************************************************************)
(* The result of helm_deploy next to its binding policy (C21).             *)
(***************************************************************************)
\* execute() has returned after a binding policy that failed.
PolicyFailed == pc = "done" /\ policy.invoked /\ policy.status = "error"

\* C21: a binding policy that could not be created or applied leaves the
\* deployment part of the helm_deploy result as the deployment made it: the
\* status, the cluster counts and the per-cluster results are those of the
\* fan-out, and the failure shows only in binding_policy, with status 'error'.
C21_PolicyFailureIsSibling ==
    PolicyFailed =>
        /\ envelope = Envelope(site, outputFormat, clusters, results)
        /\ envelope.status = "success"
        /\ policy.status = "error"

C21_Witness ==
    /\ PolicyFailed
    /\ policy.applied
    /\ Len(clusters) = 2
    /\ envelope.clusters_succeeded = 1
    /\ envelope.clusters_failed = 1

(***************************************************************************)
(* Labels and selectors (C22).                                             *)
(***************************************************************************)
\* C22: for every release name, chart name and caller-supplied
\* kubestellar_labels the object selectors of the generated binding policy
\* match the labels stamped on the deployed resources: the identity selector
\* has the stamped values of managed-by and instance, the additional selector
\* holds every other stamped label with its stamped value, and the cluster
\* selector is cluster_selector_labels if given, else location-group=edge.
C22_SelectorsMatchStamped ==
    lpc = "policy" =>
        /\ selectors.identity[ManagedBy] = stamped[ManagedBy]
        /\ selectors.identity[Instance] = stamped[Instance]
        /\ selectors.additional
              = [k \in DOMAIN stamped \ {ManagedBy, Instance} |-> stamped[k]]
        /\ selectors.cluster
              = IF lin.cluster # EmptyMap THEN lin.cluster
                ELSE [k \in {"location-group"} |-> <<"edge">>]

(***************************************************************************)
(* The envelope of execute() (C23).                                        *)
(***************************************************************************)
\* C23: whatever the external commands answer and whatever exception is
\* raised inside it, execute() of a fan-out function returns a dictionary
\* whose status is 'success', 'error' or 'cancelled'; when an exception
\* reached execute()'s own handler the error field carries its text, and an
\* exception is behind every such dictionary.
C23_AlwaysAnEnvelope ==
    pc = "done" =>
        /\ envelope.kind \in {"fanout", "dryrun", "exception"}
        /\ envelope.status \in {"success", "error", "cancelled"}
        /\ envelope.kind = "exception" <=>
              (site \in {"helm_uninstall", "helm_info"} /\ raisedAt # {})
        /\ envelope.kind = "exception" =>
              (envelope.status = "error" /\ envelope.error = "exception")

C23_Witness ==
    /\ pc = "done"
    /\ site = "helm_info"
    /\ Len(clusters) = 2
    /\ raisedAt = {<<2, 1>>}
    /\ envelope.status = "error"
    /\ envelope.error = "exception"

(***************************************************************************)
(* The process runner (C24).                                               *)
(***************************************************************************)
\* C24 as claimed: the runner never raises; a launch failure returns
\* returncode 1, an empty stdout and the description as stderr; otherwise it
\* returns the exit code, stdout and stderr of the child, after the child has
\* completed, or, in the setup runner, returncode 1 after the timeout.
C24_RunnerAsClaimed ==
    rpc = "returned" =>
        /\ rret.kind = "dict"
        /\ IF rchild.launch = "failed"
           THEN rret = RunnerFailure("launch failed")
           ELSE IF rchild.timedOut
           THEN rsite = "setup" /\ rret.returncode = 1
           ELSE /\ rchild.state = "exited"
                /\ rret.returncode = rchild.code
                /\ rret.stdout = rchild.out
                /\ rret.stderr = rchild.err

\* C24: the runner never raises; a launch failure returns returncode 1, an
\* empty stdout and the description as stderr; a child whose output is not
\* valid UTF-8 is reported the same way, with the decoding error as stderr;
\* otherwise the runner returns the exit code, stdout and stderr of the
\* child; in each of the last two cases only after the child has completed,
\* or, in the setup runner, returncode 1 after the timeout.
C24_RunnerNeverRaises ==
    rpc = "returned" =>
        /\ rret.kind = "dict"
        /\ IF rchild.launch = "failed"
           THEN rret = RunnerFailure("launch failed")
           ELSE IF rchild.timedOut
           THEN rsite = "setup" /\ rret.returncode = 1 /\ rret.stdout = <<>>
           ELSE /\ rchild.state = "exited"
                /\ IF Decodable(rchild.out) /\ Decodable(rchild.err)
                   THEN /\ rret.returncode = rchild.code
                        /\ rret.stdout = rchild.out
                        /\ rret.stderr = rchild.err
                   ELSE /\ rret.returncode = 1
                        /\ rret.stdout = <<>>
                        /\ Len(rret.stderr) = 1

C24_Witness ==
    /\ rpc = "returned"
    /\ rsite = "fanout"
    /\ rchild.state = "exited"
    /\ rchild.code = 2
    /\ rchild.out = <<"text", "text">>
    /\ rret.returncode = 2
    /\ rret.stdout = <<"text", "text">>

(***************************************************************************)
(* The function registry (C25).                                            *)
(***************************************************************************)
\* The names registered so far.
RegisteredNames == {registered[i].name : i \in 1..Len(registered)}

\* The function most recently registered under a name.
LatestFor(name) ==
    LET at == {i \in 1..Len(registered) : registered[i].name = name}
    IN registered[CHOOSE i \in at : \A j \in at : j <= i]

\* C25: after any sequence of register calls the registry holds exactly one
\* function per distinct name: get(name) is the function registered last
\* under that name, or None if there was none; a name registered again
\* replaces its entry, so the number of entries is the number of distinct
\* names; list_all and get_schemas have exactly one entry per name.
C25_OneFunctionPerName ==
    gpc = "open" =>
        /\ \A n \in FunctionNames :
              Get(registry, n) = IF n \in RegisteredNames THEN LatestFor(n) ELSE None
        /\ Len(ListAll(registry)) = Cardinality(RegisteredNames)
        /\ \A n \in RegisteredNames :
              Cardinality({i \in 1..Len(ListAll(registry)) :
                              ListAll(registry)[i].name = n}) = 1
        /\ \A i \in 1..Len(ListAll(registry)) :
              ListAll(registry)[i] = LatestFor(ListAll(registry)[i].name)
        /\ DOMAIN GetSchemas(registry) = RegisteredNames
        /\ \A n \in RegisteredNames : GetSchemas(registry)[n].schema_of = LatestFor(n)

C25_Witness ==
    /\ gpc = "open"
    /\ Len(registered) = 3
    /\ registered[1] = [name |-> "logs", id |-> 1]
    /\ registered[2].name = "create"
    /\ registered[3] = [name |-> "logs", id |-> 2]
    /\ Get(registry, "logs").id = 2
    /\ Len(ListAll(registry)) = 2

(***************************************************************************)
(* Sequential dispatch (C26).                                              *)
(***************************************************************************)
\* (a, b) comes before (c, d) in cluster-major, namespace-minor order.
Before(u, v) == u[1] < v[1] \/ (u[1] = v[1] /\ u[2] < v[2])

\* C26: in a non-streaming fan-out the units run one at a time in
\* cluster-major, namespace-minor order: at most one external process is in
\* flight, units start in increasing order, and when a unit has started every
\* unit that started before it has completed (the units a raising unit made
\* the loop skip never start).
C26_OneUnitAtATime ==
    /\ Cardinality(flight) <= 1
    /\ \A a, b \in 1..Len(order) : a < b => Before(order[a], order[b])
    /\ \A a \in 1..Len(order) :
          a < Len(order) => order[a] \notin flight
    /\ \A u \in flight : u = order[Len(order)] /\ u = <<qi, qj>> /\ qpc = "awaiting"

C26_Witness ==
    /\ qn = 2
    /\ qm = 2
    /\ order = <<<<1, 1>>, <<1, 2>>, <<2, 1>>>>
    /\ flight = {<<2, 1>>}
    /\ DOMAIN finished = {<<1, 1>>, <<1, 2>>}

(***************************************************************************)
(* Dry run (C27).                                                          *)
(***************************************************************************)
\* C27: with dry_run set, deploy_to and helm_deploy return status "success"
\* with the deployment plan (the selected clusters and the resolved
\* namespaces); no unit of work has run, no binding policy has been applied,
\* and the only command is the namespace query of the resolution.
C27_DryRunOnlyPlans ==
    dryRun =>
        /\ ran = {}
        /\ results = EmptyMap
        /\ policy = NoPolicy
        /\ Len(queried) <= 1
        /\ pc = "done" =>
              /\ envelope.kind = "dryrun"
              /\ envelope.status = "success"
              /\ envelope.plan.target_clusters = clusters
              /\ envelope.plan.target_namespaces = nsList

C27_Witness ==
    /\ dryRun
    /\ pc = "done"
    /\ site = "helm_deploy"
    /\ bpIn.create
    /\ Len(clusters) = 2
    /\ Len(queried) = 1
    /\ envelope.plan.target_namespaces = <<"default", "prod">>

(***************************************************************************)
(* Exit codes in follow mode (C28).                                        *)
(***************************************************************************)
\* C28: in follow mode a cluster's task reports status "success" (and so is
\* counted in clusters_succeeded) only if its stream's child process was
\* started and exited with code 0, and a stream whose child exits with a
\* non-zero code is reported with status "error".
C28_SuccessMeansExitZero ==
    \A c \in Tasks :
        /\ tresult[c] = "success" =>
              /\ c \in launched
              /\ proc[c] = "exited"
              /\ exitCode[c] = 0
        /\ (tstate[c] = "done" /\ proc[c] = "exited" /\ exitCode[c] # 0
               /\ tresult[c] # "cancelled")
              => tresult[c] = "error"

(***************************************************************************)
(* The dispatched namespace list (C29).                                    *)
(***************************************************************************)
\* C29: the namespace list that multicluster_create, deploy_to and
\* helm_deploy dispatch on is never empty, whatever the namespace query
\* answered, and a call that has returned its fan-out result has attempted at
\* least one unit of work on every selected cluster.
C29_NamespaceListNeverEmpty ==
    (site \in UnitSites /\ pc # "resolve") =>
        /\ nsList # <<>>
        /\ (pc = "done" /\ envelope.kind = "fanout") =>
              \A i \in 1..Len(clusters) : \E j \in 1..Len(nsList) : <<i, j>> \in ran

(***************************************************************************)
(* The cluster filter of kubestellar_management (C30).                     *)
(***************************************************************************)
\* C30: whenever cluster_names is non-empty, the analysed clusters are
\* exactly the discovered clusters whose name is in cluster_names, for every
\* value of all_clusters.
C30_NamesAlwaysFilter ==
    (kreply = "analysis" /\ knames # {}) =>
        kanalysed = SelectSeq(kdiscovered, LAMBDA c : c \in knames)

====
